---- MODULE Spec2Model ----
(***************************************************************************)
(* Authentication and token-issuance core of life-is-hard:                 *)
(*   internal/handler/oauth/token.go   TokenHandler  (POST /oauth/token)   *)
(*   internal/handler/auth/login.go    LoginHandler  (POST /auth/login)    *)
(*   internal/service/authentication.go  token and credential services     *)
(*   internal/repository/*.go          exact-match lookups in the store    *)
(*                                                                         *)
(* Strings that pass through a conversion (the Authorization header, the   *)
(* client id and the client secret) are sequences of byte values, so that  *)
(* base64 decoding and the split at ':' are computed, not assumed.         *)
(* Other strings (user names, passwords, messages) are TLA+ strings.       *)
(* Time is in seconds.                                                     *)
(***************************************************************************)
EXTENDS Integers, Sequences, FiniteSets, TLC

VARIABLES
    users,      \* rows of table users
    clients,    \* rows of table oauth_clients
    cache,      \* Redis: set of entries [key, val, exp]
    now,        \* wall clock (timeNow)
    jwtSecret,  \* os.Getenv("JWT_SECRET")
    nextTok,    \* number of random refresh tokens drawn so far (randRead)
    bearer,     \* the access token a caller holds and presents as Bearer
    written,    \* history: key and expiry of every record written to the cache
    last,       \* the last request handled, its response and what it did
    pool,       \* internal/worker: the pool, its workers and its callers
    boot,       \* cmd/service: the position and the resources of run()
    flight      \* the token requests in progress, each with its local variables

\* the state of the auth core
authVars == <<users, clients, cache, now, jwtSecret, nextTok, bearer, written, last>>

vars == <<authVars, pool, boot, flight>>

-----------------------------------------------------------------------------
(* Bounds of the model *)

\* number of refresh tokens that can be drawn from the random source
MaxTokens == 1
\* the clock stops advancing at this many seconds (30 days and 2 seconds)
MaxTime == 2592002

(* Program constants *)

\* 24*time.Hour, the access token's ttl, in seconds
AccessTTL == 86400
\* 30*24*time.Hour, the refresh token's ttl, in seconds
RefreshTTL == 2592000
\* TokenResponse.ExpiresIn
ExpiresIn == 86400
\* seconds by which the clock advances at a time: a second more than half the
\* refresh ttl, so that after one step an access token is expired while the
\* refresh token issued with it still lives, and after two steps the refresh
\* token's ttl has run out
TimeStep == RefreshTTL \div 2 + 1

StatusOK == 200
StatusBadRequest == 400
StatusUnauthorized == 401
StatusInternalServerError == 500

-----------------------------------------------------------------------------
(* Byte strings *)

Lower == <<"a","b","c","d","e","f","g","h","i","j","k","l","m",
           "n","o","p","q","r","s","t","u","v","w","x","y","z">>

\* the byte value of a character of the model's alphabet
Ord(ch) ==
    IF \E i \in 1..26 : Lower[i] = ch
    THEN 96 + (CHOOSE i \in 1..26 : Lower[i] = ch)
    ELSE CASE ch = ":" -> 58
           [] ch = " " -> 32
           [] ch = "B" -> 66
           [] ch = "?" -> 63
           [] ch = "!" -> 33
           [] ch = "-" -> 45
           [] ch = "=" -> 61
           [] ch = "0" -> 48
           [] ch = "1" -> 49
           [] ch = "2" -> 50
           [] ch = "3" -> 51

Bytes(chars) == [i \in 1..Len(chars) |-> Ord(chars[i])]

Colon == 58
PadChar == 61

\* value of a character of the standard base64 alphabet, -1 for any other byte
B64Val(c) ==
    IF c \in 65..90 THEN c - 65
    ELSE IF c \in 97..122 THEN c - 71
    ELSE IF c \in 48..57 THEN c + 4
    ELSE IF c = 43 THEN 62
    ELSE IF c = 47 THEN 63
    ELSE -1

\* character of the standard base64 alphabet for a 6-bit value
B64Char(v) ==
    IF v < 26 THEN v + 65
    ELSE IF v < 52 THEN v + 71
    ELSE IF v < 62 THEN v - 4
    ELSE IF v = 62 THEN 43
    ELSE 47

\* base64.StdEncoding.EncodeToString
RECURSIVE B64Encode(_)
B64Encode(b) ==
    IF Len(b) = 0 THEN << >>
    ELSE IF Len(b) = 1 THEN
        << B64Char(b[1] \div 4), B64Char((b[1] % 4) * 16), PadChar, PadChar >>
    ELSE IF Len(b) = 2 THEN
        << B64Char(b[1] \div 4),
           B64Char((b[1] % 4) * 16 + b[2] \div 16),
           B64Char((b[2] % 16) * 4), PadChar >>
    ELSE
        << B64Char(b[1] \div 4),
           B64Char((b[1] % 4) * 16 + b[2] \div 16),
           B64Char((b[2] % 16) * 4 + b[3] \div 64),
           B64Char(b[3] % 64) >> \o B64Encode(SubSeq(b, 4, Len(b)))

DecodeErr == [ok |-> FALSE, bytes |-> << >>]

\* one quantum of four characters; `final` says it is the last one, the only
\* place where padding is legal
B64Quantum(q, final) ==
    LET v1 == B64Val(q[1])
        v2 == B64Val(q[2])
        v3 == B64Val(q[3])
        v4 == B64Val(q[4])
        b1 == v1 * 4 + v2 \div 16
        b2 == (v2 % 16) * 16 + v3 \div 4
        b3 == (v3 % 4) * 64 + v4
    IN  IF v1 < 0 \/ v2 < 0 THEN DecodeErr
        ELSE IF v3 >= 0 /\ v4 >= 0 THEN [ok |-> TRUE, bytes |-> <<b1, b2, b3>>]
        ELSE IF final /\ v3 >= 0 /\ q[4] = PadChar THEN [ok |-> TRUE, bytes |-> <<b1, b2>>]
        ELSE IF final /\ q[3] = PadChar /\ q[4] = PadChar THEN [ok |-> TRUE, bytes |-> <<b1>>]
        ELSE DecodeErr

\* base64.StdEncoding.DecodeString: padded quanta of four characters of the
\* standard alphabet; anything else is a CorruptInputError
RECURSIVE B64Decode(_)
B64Decode(s) ==
    IF Len(s) = 0 THEN [ok |-> TRUE, bytes |-> << >>]
    ELSE IF Len(s) < 4 THEN DecodeErr
    ELSE LET head == B64Quantum(SubSeq(s, 1, 4), Len(s) = 4)
             rest == B64Decode(SubSeq(s, 5, Len(s)))
         IN  IF head.ok /\ rest.ok
             THEN [ok |-> TRUE, bytes |-> head.bytes \o rest.bytes]
             ELSE DecodeErr

\* strings.HasPrefix
HasPrefix(s, p) == Len(s) >= Len(p) /\ SubSeq(s, 1, Len(p)) = p

\* strings.SplitN(s, ":", 2): split at the first separator only
SplitAtLast(s) ==
    IF \E i \in 1..Len(s) : s[i] = Colon
    THEN LET i == CHOOSE k \in 1..Len(s) :
                      s[k] = Colon /\ \A j \in (k + 1)..Len(s) : s[j] # Colon
         IN  << SubSeq(s, 1, i - 1), SubSeq(s, i + 1, Len(s)) >>
    ELSE << s >>
SplitN2(s) ==
    IF \E i \in 1..Len(s) : s[i] = Colon
    THEN LET i == CHOOSE k \in 1..Len(s) :
                      s[k] = Colon /\ \A j \in 1..(k - 1) : s[j] # Colon
         IN  << SubSeq(s, 1, i - 1), SubSeq(s, i + 1, Len(s)) >>
    ELSE << s >>

BasicPrefix == Bytes(<<"B","a","s","i","c"," ">>)

-----------------------------------------------------------------------------
(* The relational store *)

Alice == 1
Bob == 2

\* bcrypt hash of a password: salted and one-way, so it is kept symbolic
BcryptHash(pw) == [alg |-> "bcrypt", of |-> pw]

InitUsers ==
    { [id |-> Alice, name |-> "alice", password_hash |-> BcryptHash("pw1"), is_admin |-> TRUE],
      [id |-> Bob, name |-> "bob", password_hash |-> BcryptHash("pw2"), is_admin |-> FALSE] }

C1 == Bytes(<<"c","1">>)
C2 == Bytes(<<"c","2">>)
C3 == Bytes(<<"c","3">>)
CX == Bytes(<<"c","x">>)
S1 == Bytes(<<"s","1">>)
S2 == Bytes(<<"s",":","2">>)
S3 == Bytes(<<"s","3">>)

InitClients ==
    { [client_id |-> C1, client_secret |-> S1, user_id |-> Bob,
       grant_types |-> <<"password", "refresh_token">>],
      [client_id |-> C2, client_secret |-> S2, user_id |-> Alice,
       grant_types |-> <<"client_credentials", "password">>],
      [client_id |-> C3, client_secret |-> S3, user_id |-> Bob,
       grant_types |-> <<"foo", "refresh_token">>] }

\* the users whose rows are updated and deleted while the model runs
Changed == {Alice}

NoUser == [id |-> 0, name |-> "", password_hash |-> [alg |-> "", of |-> ""], is_admin |-> FALSE]
NoClient == [client_id |-> << >>, client_secret |-> << >>, user_id |-> 0, grant_types |-> << >>]

\* repository.GetUserByName: the row with that name, or an error (no row, or
\* the query failed)
GetUserByName(userName, queryFails) ==
    IF queryFails \/ ~ \E u \in users : u.name = userName
    THEN [err |-> TRUE, user |-> NoUser]
    ELSE [err |-> FALSE, user |-> CHOOSE u \in users : u.name = userName]

\* repository.GetUserByID
GetUserByID(userID, queryFails) ==
    IF queryFails \/ ~ \E u \in users : u.id = userID
    THEN [err |-> TRUE, user |-> NoUser]
    ELSE [err |-> FALSE, user |-> CHOOSE u \in users : u.id = userID]

\* repository.GetOAuthClientByClientID
GetOAuthClientByClientID(clientID, queryFails) ==
    IF queryFails \/ ~ \E c \in clients : c.client_id = clientID
    THEN [err |-> TRUE, client |-> NoClient]
    ELSE [err |-> FALSE, client |-> CHOOSE c \in clients : c.client_id = clientID]

-----------------------------------------------------------------------------
(* internal/service/authentication.go *)

\* ComparePassword: bcrypt.CompareHashAndPassword, TRUE when it returns nil
ComparePassword(hash, password) == hash = BcryptHash(password)

\* AuthenticateUser: TRUE when it returns nil
AuthenticateUserUnchecked(user, password) == TRUE
AuthenticateUser(user, password) == ComparePassword(user.password_hash, password)

NoToken ==
    [user_id |-> 0, client_id |-> << >>, is_admin |-> FALSE, sub |-> <<"none">>,
     iat |-> 0, exp |-> 0, alg |-> "", key |-> ""]

\* the signing methods registered with the jwt package, and those of type
\* *jwt.SigningMethodHMAC among them
RegisteredAlgs ==
    {"HS256", "HS384", "HS512", "RS256", "RS384", "RS512", "ES256", "ES384", "ES512",
     "PS256", "PS384", "PS512", "EdDSA", "none"}
HMACAlgs == {"HS256", "HS384", "HS512"}

\* IssueAccessToken: the signed token is the claim set together with the
\* algorithm and the key that signed it
IssueAccessTokenDefaultSecret(user, ttl) ==
    [err |-> FALSE,
     token |-> [user_id |-> user.id, client_id |-> << >>, is_admin |-> user.is_admin,
                sub |-> <<"user", user.id>>,
                iat |-> now, exp |-> now + ttl, alg |-> "HS256",
                key |-> IF jwtSecret = "" THEN "default" ELSE jwtSecret]]
IssueAccessToken(user, ttl) ==
    IF jwtSecret = ""
    THEN [err |-> TRUE, token |-> NoToken]
    ELSE [err |-> FALSE,
          token |-> [user_id |-> user.id, client_id |-> << >>, is_admin |-> user.is_admin,
                     sub |-> <<"user", user.id>>,
                     iat |-> now, exp |-> now + ttl, alg |-> "HS256", key |-> jwtSecret]]

\* IssueClientAccessToken
IssueClientAccessTokenAnyUser(user, client, ttl) ==
    IF jwtSecret = "" THEN [err |-> TRUE, token |-> NoToken]
    ELSE [err |-> FALSE,
          token |-> [user_id |-> user.id, client_id |-> client.client_id,
                     is_admin |-> user.is_admin, sub |-> <<"client", client.client_id>>,
                     iat |-> now, exp |-> now + ttl, alg |-> "HS256", key |-> jwtSecret]]
IssueClientAccessToken(user, client, ttl) ==
    IF jwtSecret = "" THEN [err |-> TRUE, token |-> NoToken]
    ELSE IF user.id # client.user_id THEN [err |-> TRUE, token |-> NoToken]
    ELSE [err |-> FALSE,
          token |-> [user_id |-> user.id, client_id |-> client.client_id,
                     is_admin |-> user.is_admin, sub |-> <<"client", client.client_id>>,
                     iat |-> now, exp |-> now + ttl, alg |-> "HS256", key |-> jwtSecret]]

\* the claims of a token: what the signature covers
ClaimsOf(token) ==
    [user_id |-> token.user_id, client_id |-> token.client_id, is_admin |-> token.is_admin,
     sub |-> token.sub, iat |-> token.iat, exp |-> token.exp]
NoClaims == ClaimsOf(NoToken)

\* VerifyAccessToken: jwt.ParseWithClaims with the key function that admits
\* the methods of type *jwt.SigningMethodHMAC and hands out the secret; the
\* parser then verifies the signature under the token's own method and
\* requires now to be before exp
VerifyAccessTokenNoExpiry(token) ==
    IF jwtSecret = "" THEN [err |-> TRUE, claims |-> NoClaims]
    ELSE IF token.alg \notin RegisteredAlgs THEN [err |-> TRUE, claims |-> NoClaims]
    ELSE IF token.alg \notin HMACAlgs THEN [err |-> TRUE, claims |-> NoClaims]
    ELSE IF token.key # jwtSecret THEN [err |-> TRUE, claims |-> NoClaims]
    ELSE [err |-> FALSE, claims |-> ClaimsOf(token)]
VerifyAccessTokenKnownUser(token) ==
    IF jwtSecret = "" THEN [err |-> TRUE, claims |-> NoClaims]
    ELSE IF token.alg \notin RegisteredAlgs THEN [err |-> TRUE, claims |-> NoClaims]
    ELSE IF token.alg \notin HMACAlgs THEN [err |-> TRUE, claims |-> NoClaims]
    ELSE IF token.key # jwtSecret THEN [err |-> TRUE, claims |-> NoClaims]
    ELSE IF ~ (now < token.exp) THEN [err |-> TRUE, claims |-> NoClaims]
    ELSE IF GetUserByID(token.user_id, FALSE).err THEN [err |-> TRUE, claims |-> NoClaims]
    ELSE [err |-> FALSE, claims |-> ClaimsOf(token)]
VerifyAccessToken(token) ==
    IF jwtSecret = "" THEN [err |-> TRUE, claims |-> NoClaims]
    ELSE IF token.alg \notin RegisteredAlgs THEN [err |-> TRUE, claims |-> NoClaims]
    ELSE IF token.alg \notin HMACAlgs THEN [err |-> TRUE, claims |-> NoClaims]
    ELSE IF token.key # jwtSecret THEN [err |-> TRUE, claims |-> NoClaims]
    ELSE IF ~ (now < token.exp) THEN [err |-> TRUE, claims |-> NoClaims]
    ELSE [err |-> FALSE, claims |-> ClaimsOf(token)]

NoRefreshToken == << >>
\* the n-th value drawn from crypto/rand, base64url-encoded: 32 random bytes
\* do not repeat, so each draw is a value never seen before
RandomToken(n) == <<"rt", n>>
\* a well-formed value that was never issued
BogusToken == <<"rt", 0>>

\* fmt.Sprintf("refresh_token:%s", token)
RefreshKey(token) == <<"refresh_token:", token>>

\* cache.Set(ctx, key, value, ttl): the key's entry is replaced
CacheSet(c, key, val, ttl) ==
    {e \in c : e.key # key} \cup {[key |-> key, val |-> val, exp |-> now + ttl]}

\* IssueRefreshToken: rand.Read, marshal, cache.Set
IssueRefreshTokenUnrecorded(userID, clientID, isAdmin, ttl, fault) ==
    IF fault = "randRead"
    THEN [err |-> TRUE, token |-> NoRefreshToken, cache |-> cache, drawn |-> 0,
          effects |-> <<"randRead">>]
    ELSE LET token == RandomToken(nextTok + 1)
             data == [user_id |-> userID, client_id |-> clientID, is_admin |-> isAdmin]
         IN  IF fault = "jsonMarshal"
             THEN [err |-> TRUE, token |-> NoRefreshToken, cache |-> cache, drawn |-> 1,
                   effects |-> <<"randRead", "jsonMarshal">>]
             ELSE IF fault = "cacheSet"
             THEN [err |-> FALSE, token |-> token, cache |-> cache, drawn |-> 1,
                   effects |-> <<"randRead", "jsonMarshal", "cache.Set">>]
             ELSE [err |-> FALSE, token |-> token,
                   cache |-> CacheSet(cache, RefreshKey(token), data, ttl),
                   drawn |-> 1, effects |-> <<"randRead", "jsonMarshal", "cache.Set">>]
IssueRefreshTokenNoFlag(userID, clientID, isAdmin, ttl, fault) ==
    IF fault = "randRead"
    THEN [err |-> TRUE, token |-> NoRefreshToken, cache |-> cache, drawn |-> 0,
          effects |-> <<"randRead">>]
    ELSE LET token == RandomToken(nextTok + 1)
             data == [user_id |-> userID, client_id |-> clientID, is_admin |-> FALSE]
         IN  IF fault = "jsonMarshal"
             THEN [err |-> TRUE, token |-> NoRefreshToken, cache |-> cache, drawn |-> 1,
                   effects |-> <<"randRead", "jsonMarshal">>]
             ELSE IF fault = "cacheSet"
             THEN [err |-> TRUE, token |-> NoRefreshToken, cache |-> cache, drawn |-> 1,
                   effects |-> <<"randRead", "jsonMarshal", "cache.Set">>]
             ELSE [err |-> FALSE, token |-> token,
                   cache |-> CacheSet(cache, RefreshKey(token), data, ttl),
                   drawn |-> 1, effects |-> <<"randRead", "jsonMarshal", "cache.Set">>]
IssueRefreshToken(userID, clientID, isAdmin, ttl, fault) ==
    IF fault = "randRead"
    THEN [err |-> TRUE, token |-> NoRefreshToken, cache |-> cache, drawn |-> 0,
          effects |-> <<"randRead">>]
    ELSE LET token == RandomToken(nextTok + 1)
             data == [user_id |-> userID, client_id |-> clientID, is_admin |-> isAdmin]
         IN  IF fault = "jsonMarshal"
             THEN [err |-> TRUE, token |-> NoRefreshToken, cache |-> cache, drawn |-> 1,
                   effects |-> <<"randRead", "jsonMarshal">>]
             ELSE IF fault = "cacheSet"
             THEN [err |-> TRUE, token |-> NoRefreshToken, cache |-> cache, drawn |-> 1,
                   effects |-> <<"randRead", "jsonMarshal", "cache.Set">>]
             ELSE [err |-> FALSE, token |-> token,
                   cache |-> CacheSet(cache, RefreshKey(token), data, ttl),
                   drawn |-> 1, effects |-> <<"randRead", "jsonMarshal", "cache.Set">>]

NoData == [user_id |-> 0, client_id |-> << >>, is_admin |-> FALSE]

\* ValidateRefreshToken: cache.Get, unmarshal
ValidateRefreshToken(token, fault) ==
    IF fault = "cacheGet" \/ ~ \E e \in cache : e.key = RefreshKey(token)
    THEN [err |-> TRUE, data |-> NoData]
    ELSE [err |-> FALSE, data |-> (CHOOSE e \in cache : e.key = RefreshKey(token)).val]

-----------------------------------------------------------------------------
(* internal/handler/oauth/token.go *)

\* the Basic credential pair of the Authorization header: [ok, id, secret]
ParseBasicAuth(auth) ==
    IF ~ HasPrefix(auth, BasicPrefix)
    THEN [ok |-> FALSE, id |-> << >>, secret |-> << >>]
    ELSE LET decoded == B64Decode(SubSeq(auth, Len(BasicPrefix) + 1, Len(auth)))
             parts == SplitN2(decoded.bytes)
         IN  IF ~ decoded.ok \/ Len(parts) # 2
             THEN [ok |-> FALSE, id |-> << >>, secret |-> << >>]
             ELSE [ok |-> TRUE, id |-> parts[1], secret |-> parts[2]]

\* "Basic " + base64(id ":" secret)
BasicAuth(id, secret) == BasicPrefix \o B64Encode(id \o <<Colon>> \o secret)

GoodAuths == { BasicAuth(C1, S1), BasicAuth(C2, S2), BasicAuth(C3, S3) }
\* well-formed headers that must not authenticate: a wrong secret, an unknown
\* client, a secret cut at its own ':'
BadClientAuths == { BasicAuth(C1, S3), BasicAuth(CX, S1), BasicAuth(C2, Bytes(<<"s">>)) }
\* absent, no "Basic " prefix, not base64, no ':' in the payload, empty payload
MalformedAuths ==
    { << >>,
      Bytes(<<"b","a","d">>),
      BasicPrefix \o Bytes(<<"?","?","?">>),
      BasicPrefix \o Bytes(<<"c","1","=","=">>),
      BasicPrefix \o B64Encode(Bytes(<<"a","b","c">>)),
      BasicPrefix }

AllAuths == GoodAuths \cup BadClientAuths \cup MalformedAuths

\* ParseBasicAuth of every header the requests carry, computed once
ParsedAuth == [a \in AllAuths |-> ParseBasicAuth(a)]


\* what a handler run leaves behind: the HTTP response (status, message,
\* access_token, refresh_token), the calls it made in order (effects), the
\* access tokens it signed, the cache it leaves and the random draws it took
Outcome(status, message, access, refresh, effects, signed, newCache, drawn) ==
    [status |-> status, message |-> message, access_token |-> access,
     refresh_token |-> refresh, effects |-> effects, signed |-> signed,
     cache |-> newCache, drawn |-> drawn]

Reject(status, message, effects, signed, drawn) ==
    Outcome(status, message, NoToken, NoRefreshToken, effects, signed, cache, drawn)

\* oc.ClientSecret != req.ClientSecret, negated
SecretMatchesAny(oc, secret) == TRUE
SecretMatches(oc, secret) == oc.client_secret = secret

\* the loop over oc.GrantTypes
GrantAllowedAlways(oc, grantType) == TRUE
GrantAllowedExemptRefresh(oc, grantType) ==
    \/ grantType = "refresh_token"
    \/ \E i \in 1..Len(oc.grant_types) : oc.grant_types[i] = grantType
GrantAllowed(oc, grantType) ==
    \E i \in 1..Len(oc.grant_types) : oc.grant_types[i] = grantType

\* case "password"
PasswordGrant(req, oc, eff) ==
    LET u == GetUserByName(req.username, req.fault = "userQuery")
        eff1 == Append(eff, "GetUserByName")
        eff2 == Append(eff1, "AuthenticateUser")
        at == IssueAccessToken(u.user, AccessTTL)
        eff3 == Append(eff2, "IssueAccessToken")
        rt == IssueRefreshToken(u.user.id, oc.client_id, u.user.is_admin, RefreshTTL, req.fault)
        eff4 == Append(eff3, "IssueRefreshToken") \o rt.effects
    IN  IF u.err
        THEN Reject(StatusUnauthorized, "invalid credentials", eff1, {}, 0)
        ELSE IF ~ AuthenticateUser(u.user, req.password)
        THEN Reject(StatusUnauthorized, "invalid credentials", eff2, {}, 0)
        ELSE IF at.err
        THEN Reject(StatusInternalServerError, "failed to issue token", eff3, {}, 0)
        ELSE IF rt.err
        THEN Reject(StatusInternalServerError, "failed to issue refresh token", eff4,
                    {at.token}, rt.drawn)
        ELSE Outcome(StatusOK, "", at.token, rt.token, eff4, {at.token}, rt.cache, rt.drawn)

\* case "client_credentials"
ClientCredentialsGrantWithRefresh(req, oc, eff) ==
    LET owner == GetUserByID(oc.user_id, req.fault = "userQuery")
        eff1 == Append(eff, "GetUserByID")
        at == IssueClientAccessToken(owner.user, oc, AccessTTL)
        eff2 == Append(eff1, "IssueClientAccessToken")
        rt == IssueRefreshToken(owner.user.id, oc.client_id, owner.user.is_admin,
                                RefreshTTL, req.fault)
    IN  IF owner.err
        THEN Reject(StatusInternalServerError, "failed to retrieve client owner", eff1, {}, 0)
        ELSE IF at.err
        THEN Reject(StatusInternalServerError, "failed to issue token", eff2, {}, 0)
        ELSE Outcome(StatusOK, "", at.token, rt.token, eff2 \o rt.effects, {at.token},
                     rt.cache, rt.drawn)
ClientCredentialsGrant(req, oc, eff) ==
    LET owner == GetUserByID(oc.user_id, req.fault = "userQuery")
        eff1 == Append(eff, "GetUserByID")
        at == IssueClientAccessToken(owner.user, oc, AccessTTL)
        eff2 == Append(eff1, "IssueClientAccessToken")
    IN  IF owner.err
        THEN Reject(StatusInternalServerError, "failed to retrieve client owner", eff1, {}, 0)
        ELSE IF at.err
        THEN Reject(StatusInternalServerError, "failed to issue token", eff2, {}, 0)
        ELSE Outcome(StatusOK, "", at.token, NoRefreshToken, eff2, {at.token}, cache, 0)

\* case "refresh_token"
RefreshTokenGrantOnce(req, oc, eff) ==
    LET v == ValidateRefreshToken(req.refresh_token, req.fault)
        eff1 == Append(eff, "ValidateRefreshToken") \o <<"cache.Get">>
        at == IssueAccessToken([NoUser EXCEPT !.id = v.data.user_id, !.is_admin = FALSE],
                               AccessTTL)
        eff2 == Append(eff1, "IssueAccessToken")
    IN  IF v.err
        THEN Reject(StatusUnauthorized, "invalid refresh token", eff1, {}, 0)
        ELSE IF at.err
        THEN Reject(StatusInternalServerError, "failed to issue token", eff2, {}, 0)
        ELSE Outcome(StatusOK, "", at.token, req.refresh_token, eff2, {at.token},
                     {e \in cache : e.key # RefreshKey(req.refresh_token)}, 0)
RefreshTokenGrantSliding(req, oc, eff) ==
    LET v == ValidateRefreshToken(req.refresh_token, req.fault)
        eff1 == Append(eff, "ValidateRefreshToken") \o <<"cache.Get">>
        at == IssueAccessToken([NoUser EXCEPT !.id = v.data.user_id, !.is_admin = FALSE],
                               AccessTTL)
        eff2 == Append(eff1, "IssueAccessToken")
    IN  IF v.err
        THEN Reject(StatusUnauthorized, "invalid refresh token", eff1, {}, 0)
        ELSE IF at.err
        THEN Reject(StatusInternalServerError, "failed to issue token", eff2, {}, 0)
        ELSE Outcome(StatusOK, "", at.token, req.refresh_token, eff2, {at.token},
                     CacheSet(cache, RefreshKey(req.refresh_token), v.data, RefreshTTL), 0)
RefreshTokenGrantForOwner(req, oc, eff) ==
    LET v == ValidateRefreshToken(req.refresh_token, req.fault)
        eff1 == Append(eff, "ValidateRefreshToken") \o <<"cache.Get">>
        at == IssueAccessToken([NoUser EXCEPT !.id = oc.user_id, !.is_admin = FALSE],
                               AccessTTL)
        eff2 == Append(eff1, "IssueAccessToken")
    IN  IF v.err
        THEN Reject(StatusUnauthorized, "invalid refresh token", eff1, {}, 0)
        ELSE IF at.err
        THEN Reject(StatusInternalServerError, "failed to issue token", eff2, {}, 0)
        ELSE Outcome(StatusOK, "", at.token, req.refresh_token, eff2, {at.token}, cache, 0)
RefreshTokenGrant(req, oc, eff) ==
    LET v == ValidateRefreshToken(req.refresh_token, req.fault)
        eff1 == Append(eff, "ValidateRefreshToken") \o <<"cache.Get">>
        at == IssueAccessToken([NoUser EXCEPT !.id = v.data.user_id, !.is_admin = FALSE],
                               AccessTTL)
        eff2 == Append(eff1, "IssueAccessToken")
    IN  IF v.err
        THEN Reject(StatusUnauthorized, "invalid refresh token", eff1, {}, 0)
        ELSE IF at.err
        THEN Reject(StatusInternalServerError, "failed to issue token", eff2, {}, 0)
        ELSE Outcome(StatusOK, "", at.token, req.refresh_token, eff2, {at.token}, cache, 0)

\* the switch on req.GrantType
GrantSwitchNoDefault(req, oc, eff) ==
    CASE req.grant_type = "password" -> PasswordGrant(req, oc, eff)
      [] req.grant_type = "client_credentials" -> ClientCredentialsGrant(req, oc, eff)
      [] req.grant_type = "refresh_token" -> RefreshTokenGrant(req, oc, eff)
      [] OTHER -> Outcome(StatusOK, "", NoToken, NoRefreshToken, eff, {}, cache, 0)
GrantSwitch(req, oc, eff) ==
    CASE req.grant_type = "password" -> PasswordGrant(req, oc, eff)
      [] req.grant_type = "client_credentials" -> ClientCredentialsGrant(req, oc, eff)
      [] req.grant_type = "refresh_token" -> RefreshTokenGrant(req, oc, eff)
      [] OTHER -> Reject(StatusBadRequest, "unsupported grant_type", eff, {}, 0)

\* TokenHandler: the outcome of one request in the current state
TokenHandler(req) ==
    LET basic == ParsedAuth[req.auth]
        found == GetOAuthClientByClientID(basic.id, req.fault = "clientQuery")
        oc == found.client
        eff == <<"GetOAuthClientByClientID">>
    IN  IF req.fault = "bind"
        THEN Reject(StatusBadRequest, "invalid request payload", << >>, {}, 0)
        ELSE IF ~ basic.ok
        THEN Reject(StatusBadRequest, "invalid authorization header", << >>, {}, 0)
        ELSE IF found.err \/ ~ SecretMatches(oc, basic.secret)
        THEN Reject(StatusUnauthorized, "invalid client credentials", eff, {}, 0)
        ELSE IF ~ GrantAllowed(oc, req.grant_type)
        THEN Reject(StatusBadRequest, "unauthorized grant_type", eff, {}, 0)
        ELSE GrantSwitch(req, oc, eff)

-----------------------------------------------------------------------------
(* internal/handler/auth/login.go *)

\* LoginHandler: Bind, Validate (both fields are `validate:"required"`),
\* lookup by name, password check, access token
LoginHandlerRevoking(req) ==
    LET u == GetUserByName(req.username, req.fault = "userQuery")
        eff1 == <<"GetUserByName">>
        eff2 == Append(eff1, "AuthenticateUser")
        at == IssueAccessToken(u.user, AccessTTL)
        eff3 == Append(eff2, "IssueAccessToken")
    IN  IF req.fault = "bind"
        THEN Reject(StatusBadRequest, "invalid form data", << >>, {}, 0)
        ELSE IF req.username = "" \/ req.password = ""
        THEN Reject(StatusBadRequest, "validation failed", << >>, {}, 0)
        ELSE IF u.err
        THEN Reject(StatusUnauthorized, "invalid credentials", eff1, {}, 0)
        ELSE IF ~ AuthenticateUser(u.user, req.password)
        THEN Reject(StatusUnauthorized, "invalid credentials", eff2, {}, 0)
        ELSE IF at.err
        THEN Reject(StatusInternalServerError, "failed to issue token", eff3, {}, 0)
        ELSE Outcome(StatusOK, "", at.token, NoRefreshToken, eff3, {at.token},
                     {e \in cache : e.val.user_id # u.user.id}, 0)
LoginHandlerWithRefresh(req) ==
    LET u == GetUserByName(req.username, req.fault = "userQuery")
        eff1 == <<"GetUserByName">>
        eff2 == Append(eff1, "AuthenticateUser")
        at == IssueAccessToken(u.user, AccessTTL)
        eff3 == Append(eff2, "IssueAccessToken")
        rt == IssueRefreshToken(u.user.id, << >>, u.user.is_admin, RefreshTTL, req.fault)
    IN  IF req.fault = "bind"
        THEN Reject(StatusBadRequest, "invalid form data", << >>, {}, 0)
        ELSE IF req.username = "" \/ req.password = ""
        THEN Reject(StatusBadRequest, "validation failed", << >>, {}, 0)
        ELSE IF u.err
        THEN Reject(StatusUnauthorized, "invalid credentials", eff1, {}, 0)
        ELSE IF ~ AuthenticateUser(u.user, req.password)
        THEN Reject(StatusUnauthorized, "invalid credentials", eff2, {}, 0)
        ELSE IF at.err
        THEN Reject(StatusInternalServerError, "failed to issue token", eff3, {}, 0)
        ELSE Outcome(StatusOK, "", at.token, rt.token, eff3 \o rt.effects, {at.token},
                     rt.cache, 0)
LoginHandler(req) ==
    LET u == GetUserByName(req.username, req.fault = "userQuery")
        eff1 == <<"GetUserByName">>
        eff2 == Append(eff1, "AuthenticateUser")
        at == IssueAccessToken(u.user, AccessTTL)
        eff3 == Append(eff2, "IssueAccessToken")
    IN  IF req.fault = "bind"
        THEN Reject(StatusBadRequest, "invalid form data", << >>, {}, 0)
        ELSE IF req.username = "" \/ req.password = ""
        THEN Reject(StatusBadRequest, "validation failed", << >>, {}, 0)
        ELSE IF u.err
        THEN Reject(StatusUnauthorized, "invalid credentials", eff1, {}, 0)
        ELSE IF ~ AuthenticateUser(u.user, req.password)
        THEN Reject(StatusUnauthorized, "invalid credentials", eff2, {}, 0)
        ELSE IF at.err
        THEN Reject(StatusInternalServerError, "failed to issue token", eff3, {}, 0)
        ELSE Outcome(StatusOK, "", at.token, NoRefreshToken, eff3, {at.token}, cache, 0)

-----------------------------------------------------------------------------
(* internal/middleware: extractClaims, RequireAuth, RequireAdmin *)

StatusForbidden == 403
Space == 32
ContextUserKey == "user"

\* simple case folding of an ASCII byte
Fold(b) == IF b \in 65..90 THEN b + 32 ELSE b
\* strings.EqualFold
EqualFold(a, b) == Len(a) = Len(b) /\ \A i \in 1..Len(a) : Fold(a[i]) = Fold(b[i])

BearerScheme == Bytes(<<"b","e","a","r","e","r">>)

\* an Authorization header of a protected request: the bytes of `text`
\* followed by a token string; a token string holds no space
Header(text, token) == [text |-> text, token |-> token]
NoHeader == Header(<< >>, NoToken)
\* a string that is no JWT
InvalidToken == [NoToken EXCEPT !.sub = <<"invalid">>]

\* strings.SplitN(authHeader, " ", 2)
SplitHeader(h) ==
    IF \E i \in 1..Len(h.text) : h.text[i] = Space
    THEN LET i == CHOOSE k \in 1..Len(h.text) :
                      h.text[k] = Space /\ \A j \in 1..(k - 1) : h.text[j] # Space
         IN  << Header(SubSeq(h.text, 1, i - 1), NoToken),
                Header(SubSeq(h.text, i + 1, Len(h.text)), h.token) >>
    ELSE << h >>

\* parts[1] as the argument of VerifyAccessToken
TokenString(part) == IF part.text = << >> THEN part.token ELSE InvalidToken

\* extractClaims
ExtractClaimsUnverified(h) ==
    LET parts == SplitHeader(h)
    IN  IF h = NoHeader
        THEN [err |-> TRUE, message |-> "missing token", claims |-> NoClaims]
        ELSE IF Len(parts) # 2 \/ ~ EqualFold(parts[1].text, BearerScheme)
        THEN [err |-> TRUE, message |-> "invalid authorization header format",
              claims |-> NoClaims]
        ELSE [err |-> FALSE, message |-> "", claims |-> ClaimsOf(TokenString(parts[2]))]
ExtractClaims(h) ==
    LET parts == SplitHeader(h)
        v == VerifyAccessToken(TokenString(parts[2]))
    IN  IF h = NoHeader
        THEN [err |-> TRUE, message |-> "missing token", claims |-> NoClaims]
        ELSE IF Len(parts) # 2 \/ ~ EqualFold(parts[1].text, BearerScheme)
        THEN [err |-> TRUE, message |-> "invalid authorization header format",
              claims |-> NoClaims]
        ELSE IF v.err
        THEN [err |-> TRUE, message |-> "invalid token", claims |-> NoClaims]
        ELSE [err |-> FALSE, message |-> "", claims |-> v.claims]

\* the echo context's store (c.Set / c.Get), empty at the start of a request
NoContext == << >>

\* the response of a protected route: status and message, the calls made in
\* order, and the context as the wrapped handler found it
Response(status, message, effects, ctx) ==
    [status |-> status, message |-> message, effects |-> effects, context |-> ctx]

\* the handler the middleware wraps: it answers 200
Wrapped(ctx, eff) == Response(StatusOK, "", Append(eff, "next"), ctx)

\* the closure RequireAdmin hands to RequireAuth: the check of claims.IsAdmin
\* before the wrapped handler
AdminGate(ctx, eff) ==
    IF ~ ctx[ContextUserKey].is_admin
    THEN Response(StatusForbidden, "admin privileges required", eff, ctx)
    ELSE Wrapped(ctx, eff)

\* next(c), for the two handlers RequireAuth is put around
CallNext(next, ctx, eff) ==
    IF next = "adminGate" THEN AdminGate(ctx, eff) ELSE Wrapped(ctx, eff)

\* RequireAuth
RequireAuth(next, h) ==
    LET e == ExtractClaims(h)
        ctx == (ContextUserKey :> e.claims)
    IN  IF e.err
        THEN Response(StatusUnauthorized, e.message, << >>, NoContext)
        ELSE CallNext(next, ctx, <<"c.Set">>)

\* RequireAdmin: RequireAuth around the check of claims.IsAdmin
RequireAdmin(h) == RequireAuth("adminGate", h)

-----------------------------------------------------------------------------
(* internal/worker/worker.go *)

\* NewPool is called with at most this many workers
MaxWorkers == 2
\* number of Submit calls made on the pool
MaxSubmits == 3

Calls == 1..MaxSubmits

\* NewPool(n): n workers (one when n <= 0), each at the receive of its range
\* loop; the jobs channel is unbuffered and open. `call` is the position of
\* each Submit call, `nilTask` whether it hands over a nil task, `started` and
\* `finished` count the executions of its task, `stop` is the position of the
\* Stop call, `crashed` an unrecovered panic
NewPool(n) ==
    LET workers == IF n <= 0 THEN 1 ELSE n
    IN  [n |-> workers,
         closed |-> FALSE,
         crashed |-> FALSE,
         worker |-> [w \in 1..workers |-> [pc |-> "recv", job |-> 0]],
         call |-> [c \in Calls |-> "idle"],
         nilTask |-> [c \in Calls |-> FALSE],
         started |-> [c \in Calls |-> 0],
         finished |-> [c \in Calls |-> 0],
         stop |-> "idle"]


Request(grantType, username, password, refreshToken, auth, fault) ==
    [grant_type |-> grantType, username |-> username, password |-> password,
     refresh_token |-> refreshToken, auth |-> auth, fault |-> fault]

RefreshValues == {NoRefreshToken, BogusToken} \cup {RandomToken(n) : n \in 1..MaxTokens}

TokenRequests ==
    \* the password grant by C1: known and unknown names, right, wrong and
    \* empty passwords
    { Request("password", n, p, NoRefreshToken, BasicAuth(C1, S1), "none") :
        n \in {"alice", "ghost", ""}, p \in {"pw1", "pw2", ""} }
    \cup
    { Request("password", "bob", "pw2", NoRefreshToken, a, "none") :
        a \in {BasicAuth(C1, S1), BasicAuth(C2, S2)} }
    \cup
    \* the grants, by each client
    { Request(g, "alice", "pw1", NoRefreshToken, a, "none") :
        g \in {"password", "client_credentials", "foo"}, a \in GoodAuths }
    \cup
    { Request("refresh_token", "", "", t, a, "none") : t \in RefreshValues, a \in GoodAuths }
    \cup
    \* client authentication failures and malformed headers
    { Request(g, "alice", "pw1", RandomToken(1), a, "none") :
        g \in {"password", "refresh_token", "foo"}, a \in BadClientAuths }
    \cup
    { Request("password", "alice", "pw1", NoRefreshToken, a, "none") : a \in MalformedAuths }
    \cup
    { Request("foo", "", "", NoRefreshToken, << >>, "none") }
    \cup
    \* failures of the collaborators
    { Request("password", "alice", "pw1", NoRefreshToken, BasicAuth(C1, S1), f) :
        f \in {"bind", "clientQuery", "userQuery", "randRead", "jsonMarshal", "cacheSet"} }
    \cup
    { Request("client_credentials", "", "", NoRefreshToken, BasicAuth(C2, S2), "userQuery"),
      Request("refresh_token", "", "", RandomToken(1), BasicAuth(C1, S1), "cacheGet") }

LoginRequests ==
    { Request("", n, p, NoRefreshToken, << >>, "none") :
        n \in {"alice", "ghost", ""}, p \in {"pw1", "pw2", ""} }
    \cup
    { Request("", "bob", "pw2", NoRefreshToken, << >>, "none") }
    \cup
    { Request("", "alice", "pw1", NoRefreshToken, << >>, f) : f \in {"bind", "userQuery"} }

NoRequest == Request("", "", "", NoRefreshToken, << >>, "none")

\* `last` after a step that is not a request
NoLast ==
    [handler |-> "none", req |-> NoRequest, status |-> 0, message |-> "",
     access_token |-> NoToken, refresh_token |-> NoRefreshToken, effects |-> << >>,
     signed |-> {}, drawn |-> 0, cache0 |-> {}]

Record(handler, req, out) ==
    [handler |-> handler, req |-> req, status |-> out.status, message |-> out.message,
     access_token |-> out.access_token, refresh_token |-> out.refresh_token,
     effects |-> out.effects, signed |-> out.signed, drawn |-> out.drawn,
     cache0 |-> cache]

-----------------------------------------------------------------------------
(* TokenHandler, one request per goroutine *)

\* number of token requests handled at the same time
MaxFlight == 2
Slots == 1..MaxFlight

\* what the caller of a request sees
NoResponse ==
    [status |-> 0, message |-> "", access_token |-> NoToken, refresh_token |-> NoRefreshToken]
Reply(status, message, access, refresh) ==
    [status |-> status, message |-> message, access_token |-> access,
     refresh_token |-> refresh]

\* what a run of the handler shows of itself apart from the random value of
\* a new refresh token: the response and the records it wrote
Seen(status, message, access, refreshed, records) ==
    [status |-> status, message |-> message, access_token |-> access,
     refreshed |-> refreshed, records |-> records]

\* the same of TokenHandler run from entry to return with no other request
\* in between
SeenAlone(req) ==
    LET out == TokenHandler(req)
    IN  Seen(out.status, out.message, out.access_token,
             out.refresh_token # NoRefreshToken,
             {[val |-> e.val, exp |-> e.exp] : e \in out.cache \ cache})

\* a goroutine with no request. `oc`, `user`, `tokenStr` and `token` are the
\* locals of the handler and of IssueRefreshToken; `resp` is the response and
\* `wrote` the records the request wrote
Idle ==
    [pc |-> "idle", req |-> NoRequest, oc |-> NoClient, user |-> NoUser,
     tokenStr |-> NoToken, token |-> NoRefreshToken, resp |-> NoResponse, wrote |-> {}]
NoFlight == [s \in Slots |-> Idle]

\* return c.JSON(...)
Finish(f, reply, wrote) == [f EXCEPT !.pc = "done", !.resp = reply, !.wrote = wrote]

\* the value IssueRefreshToken writes under: its local `token`
TokenOfLastDraw(f) == RandomToken(nextTok)
TokenOf(f) == f.token

\* the requests sent at the same time: password grants of alice and bob
\* through c1 and of alice through c2, a wrong password, the refresh grant of
\* the token issued before and of the one issued next, client_credentials,
\* an unsupported grant, a wrong client secret, no Authorization header
ConcRequests ==
    { Request("password", "alice", "pw1", NoRefreshToken, BasicAuth(C1, S1), "none"),
      Request("password", "bob", "pw2", NoRefreshToken, BasicAuth(C1, S1), "none"),
      Request("password", "alice", "pw1", NoRefreshToken, BasicAuth(C2, S2), "none"),
      Request("password", "alice", "pw2", NoRefreshToken, BasicAuth(C1, S1), "none"),
      Request("refresh_token", "", "", RandomToken(1), BasicAuth(C1, S1), "none"),
      Request("refresh_token", "", "", RandomToken(2), BasicAuth(C1, S1), "none"),
      Request("client_credentials", "", "", NoRefreshToken, BasicAuth(C2, S2), "none"),
      Request("foo", "", "", NoRefreshToken, BasicAuth(C3, S3), "none"),
      Request("password", "alice", "pw1", NoRefreshToken, BasicAuth(C1, S3), "none"),
      Request("password", "alice", "pw1", NoRefreshToken, << >>, "none") }

\* a request arrives: Bind and the parsing of the Authorization header
ConcBegin ==
    \E s \in Slots, req \in ConcRequests :
        LET f == [flight[s] EXCEPT !.req = req]
        IN  /\ flight[s].pc = "idle"
            /\ flight' = [flight EXCEPT ![s] =
                  IF req.fault = "bind"
                  THEN Finish(f, Reply(StatusBadRequest, "invalid request payload",
                                       NoToken, NoRefreshToken), {})
                  ELSE IF ~ ParsedAuth[req.auth].ok
                  THEN Finish(f, Reply(StatusBadRequest, "invalid authorization header",
                                       NoToken, NoRefreshToken), {})
                  ELSE [f EXCEPT !.pc = "client"]]
            /\ UNCHANGED <<authVars, pool, boot>>

\* GetOAuthClientByClientID, the secret, the grant types and the switch
ConcClient ==
    \E s \in Slots :
        LET f == flight[s]
            basic == ParsedAuth[f.req.auth]
            found == GetOAuthClientByClientID(basic.id, f.req.fault = "clientQuery")
            oc == found.client
        IN  /\ f.pc = "client"
            /\ flight' = [flight EXCEPT ![s] =
                  IF found.err \/ ~ SecretMatches(oc, basic.secret)
                  THEN Finish(f, Reply(StatusUnauthorized, "invalid client credentials",
                                       NoToken, NoRefreshToken), {})
                  ELSE IF ~ GrantAllowed(oc, f.req.grant_type)
                  THEN Finish(f, Reply(StatusBadRequest, "unauthorized grant_type",
                                       NoToken, NoRefreshToken), {})
                  ELSE IF f.req.grant_type = "password"
                  THEN [f EXCEPT !.pc = "user", !.oc = oc]
                  ELSE IF f.req.grant_type = "client_credentials"
                  THEN [f EXCEPT !.pc = "owner", !.oc = oc]
                  ELSE IF f.req.grant_type = "refresh_token"
                  THEN [f EXCEPT !.pc = "get", !.oc = oc]
                  ELSE Finish(f, Reply(StatusBadRequest, "unsupported grant_type",
                                       NoToken, NoRefreshToken), {})]
            /\ UNCHANGED <<authVars, pool, boot>>

\* case "password": GetUserByName, AuthenticateUser, IssueAccessToken
ConcUser ==
    \E s \in Slots :
        LET f == flight[s]
            u == GetUserByName(f.req.username, f.req.fault = "userQuery")
            at == IssueAccessToken(u.user, AccessTTL)
        IN  /\ f.pc = "user"
            /\ flight' = [flight EXCEPT ![s] =
                  IF u.err \/ ~ AuthenticateUser(u.user, f.req.password)
                  THEN Finish(f, Reply(StatusUnauthorized, "invalid credentials",
                                       NoToken, NoRefreshToken), {})
                  ELSE IF at.err
                  THEN Finish(f, Reply(StatusInternalServerError, "failed to issue token",
                                       NoToken, NoRefreshToken), {})
                  ELSE [f EXCEPT !.pc = "rand", !.user = u.user, !.tokenStr = at.token]]
            /\ UNCHANGED <<authVars, pool, boot>>

\* IssueRefreshToken: rand.Read and the encoding of the bytes
ConcRand ==
    \E s \in Slots :
        /\ flight[s].pc = "rand"
        /\ nextTok' = nextTok + 1
        /\ flight' = [flight EXCEPT ![s].pc = "set", ![s].token = RandomToken(nextTok + 1)]
        /\ UNCHANGED <<users, clients, cache, now, jwtSecret, bearer, written, last,
                       pool, boot>>

\* IssueRefreshToken: rdb.Set, and the response of the password grant
ConcSet ==
    \E s \in Slots :
        LET f == flight[s]
            data == [user_id |-> f.user.id, client_id |-> f.oc.client_id,
                     is_admin |-> f.user.is_admin]
            record == [key |-> RefreshKey(TokenOf(f)), val |-> data, exp |-> now + RefreshTTL]
        IN  /\ f.pc = "set"
            /\ cache' = CacheSet(cache, record.key, data, RefreshTTL)
            /\ written' = written \cup {[key |-> record.key, exp |-> record.exp]}
            /\ flight' = [flight EXCEPT ![s] =
                  Finish(f, Reply(StatusOK, "", f.tokenStr, TokenOf(f)), {record})]
            /\ UNCHANGED <<users, clients, now, jwtSecret, nextTok, bearer, last, pool, boot>>

\* case "client_credentials": GetUserByID, IssueClientAccessToken
ConcOwner ==
    \E s \in Slots :
        LET f == flight[s]
            owner == GetUserByID(f.oc.user_id, f.req.fault = "userQuery")
            at == IssueClientAccessToken(owner.user, f.oc, AccessTTL)
        IN  /\ f.pc = "owner"
            /\ flight' = [flight EXCEPT ![s] =
                  IF owner.err
                  THEN Finish(f, Reply(StatusInternalServerError,
                                       "failed to retrieve client owner",
                                       NoToken, NoRefreshToken), {})
                  ELSE IF at.err
                  THEN Finish(f, Reply(StatusInternalServerError, "failed to issue token",
                                       NoToken, NoRefreshToken), {})
                  ELSE Finish(f, Reply(StatusOK, "", at.token, NoRefreshToken), {})]
            /\ UNCHANGED <<authVars, pool, boot>>

\* case "refresh_token": ValidateRefreshToken (rdb.Get), IssueAccessToken
ConcGet ==
    \E s \in Slots :
        LET f == flight[s]
            v == ValidateRefreshToken(f.req.refresh_token, f.req.fault)
            at == IssueAccessToken([NoUser EXCEPT !.id = v.data.user_id, !.is_admin = FALSE],
                                   AccessTTL)
        IN  /\ f.pc = "get"
            /\ flight' = [flight EXCEPT ![s] =
                  IF v.err
                  THEN Finish(f, Reply(StatusUnauthorized, "invalid refresh token",
                                       NoToken, NoRefreshToken), {})
                  ELSE IF at.err
                  THEN Finish(f, Reply(StatusInternalServerError, "failed to issue token",
                                       NoToken, NoRefreshToken), {})
                  ELSE Finish(f, Reply(StatusOK, "", at.token, f.req.refresh_token), {})]
            /\ UNCHANGED <<authVars, pool, boot>>

-----------------------------------------------------------------------------
(* cmd/service/service.go: run() *)

\* strconv.Atoi on a byte string: an optional sign, then decimal digits
RECURSIVE DigitsValue(_)
DigitsValue(s) ==
    IF s = << >> THEN 0
    ELSE DigitsValue(SubSeq(s, 1, Len(s) - 1)) * 10 + (s[Len(s)] - 48)
Atoi(s) ==
    LET signed == s # << >> /\ s[1] \in {43, 45}
        digits == IF signed THEN Tail(s) ELSE s
    IN  IF digits = << >> \/ \E i \in 1..Len(digits) : digits[i] \notin 48..57
        THEN [err |-> TRUE, n |-> 0]
        ELSE [err |-> FALSE,
              n |-> IF signed /\ s[1] = 45 THEN 0 - DigitsValue(digits)
                    ELSE DigitsValue(digits)]

\* the environment of the process, as run() reads it
Env(workers, isWorker, dbURL, redisAddr, redisDB, redisPassword) ==
    [WORKER_PROCESSES |-> workers, IS_WORKER |-> isWorker, DATABASE_URL |-> dbURL,
     REDIS_ADDR |-> redisAddr, REDIS_DB |-> redisDB, REDIS_PASSWORD |-> redisPassword]

\* the environment of a single process that serves
TestEnv ==
    Env(<< >>, << >>, Bytes(<<"d","b">>), Bytes(<<"a","d","d","r">>), Bytes(<<"1">>),
        Bytes(<<"p","w">>))

Envs ==
    { Env(w, i, d, a, r, p) :
        w \in {<< >>, Bytes(<<"2">>), Bytes(<<"0">>), Bytes(<<"x">>)},
        i \in {<< >>, Bytes(<<"1">>)},
        d \in {<< >>, Bytes(<<"d","b">>)},
        a \in {<< >>, Bytes(<<"a","d","d","r">>)},
        r \in {<< >>, Bytes(<<"1">>), Bytes(<<"x">>)},
        p \in {<< >>, Bytes(<<"p","w">>)} }

\* run() at its first statement: `pc` is its position, `db` and `redis` the
\* connections to the database and to the cache, `deferred` the deferred
\* calls, `done` the steps that succeeded and the deferred calls that ran, in
\* order, `server` the HTTP server, `failed` the step that failed and
\* `result` what run() returned
NewRun(env) ==
    [pc |-> "workers", env |-> env, db |-> "none", redis |-> "none", deferred |-> << >>,
     done |-> << >>, server |-> "off", failed |-> "none", result |-> "none"]

Reverse(s) == [i \in 1..Len(s) |-> s[Len(s) + 1 - i]]

\* a return of run(): the deferred calls run, the last one first
Return(b, failed, result) ==
    LET deferred(call) == \E i \in 1..Len(b.deferred) : b.deferred[i] = call
    IN  [b EXCEPT !.pc = "returned",
                  !.db = IF deferred("db.Close") THEN "closed" ELSE @,
                  !.redis = IF deferred("redis.Close") THEN "closed" ELSE @,
                  !.done = @ \o Reverse(b.deferred),
                  !.deferred = << >>,
                  !.failed = failed,
                  !.result = result]

\* cache.NewRedisClient: the client is made, then pinged; when the ping fails
\* the client is dropped as it is. `reply` is how the ping ended: "pong", the
\* dial failed, or the server answered the ping with an error on a
\* connection that was made. The result is the error and the state of the
\* connection
NewRedisClient(reply) ==
    CASE reply = "pong" -> [err |-> FALSE, conn |-> "open"]
      [] reply = "dialFailed" -> [err |-> TRUE, conn |-> "none"]
      [] reply = "errorReply" -> [err |-> TRUE, conn |-> "open"]
PingReplies == {"pong", "dialFailed", "errorReply"}

InitBoot ==
    /\ users = InitUsers
    /\ clients = InitClients
    /\ cache = {}
    /\ now = 0
    /\ jwtSecret = "s3cr3t"
    /\ nextTok = 0
    /\ bearer = NoToken
    /\ written = {}
    /\ last = NoLast
    /\ pool = NewPool(1)
    /\ boot \in {NewRun(env) : env \in Envs}
    /\ flight = NoFlight

\* WORKER_PROCESSES and IS_WORKER: the parent of several workers spawns them
\* and returns
RunWorkers ==
    LET workersStr == IF boot.env.WORKER_PROCESSES = << >> THEN Bytes(<<"1">>)
                      ELSE boot.env.WORKER_PROCESSES
        workers == Atoi(workersStr)
    IN  /\ boot.pc = "workers"
        /\ IF workers.err \/ workers.n < 1
           THEN boot' = Return(boot, "workers", "error")
           ELSE IF workers.n > 1 /\ boot.env.IS_WORKER = << >>
           THEN \E spawned \in BOOLEAN :
                    boot' = IF spawned
                            THEN Return([boot EXCEPT !.done = Append(@, "spawnWorkers")],
                                        "none", "nil")
                            ELSE Return(boot, "spawnWorkers", "error")
           ELSE boot' = [boot EXCEPT !.pc = "env"]
        /\ UNCHANGED <<authVars, pool, flight>>

\* DATABASE_URL, REDIS_ADDR, REDIS_DB and REDIS_PASSWORD
RunEnv ==
    /\ boot.pc = "env"
    /\ boot' = IF \/ boot.env.DATABASE_URL = << >>
                  \/ boot.env.REDIS_ADDR = << >>
                  \/ boot.env.REDIS_DB = << >>
                  \/ Atoi(boot.env.REDIS_DB).err
                  \/ boot.env.REDIS_PASSWORD = << >>
               THEN Return(boot, "env", "error")
               ELSE [boot EXCEPT !.pc = "db", !.done = Append(@, "env")]
    /\ UNCHANGED <<authVars, pool, flight>>

\* newPgxPool, and defer db.Close()
RunNewPgxPool ==
    \E ok \in BOOLEAN :
        /\ boot.pc = "db"
        /\ boot' = IF ok
                   THEN [boot EXCEPT !.pc = "redis", !.db = "open",
                                     !.deferred = Append(@, "db.Close"),
                                     !.done = Append(@, "newPgxPool")]
                   ELSE Return(boot, "newPgxPool", "error")
        /\ UNCHANGED <<authVars, pool, flight>>

\* newRedisClient, and defer redis.Close()
RunNewRedisClient ==
    \E reply \in PingReplies :
        LET r == NewRedisClient(reply)
        IN  /\ boot.pc = "redis"
            /\ boot' = IF r.err
                       THEN Return([boot EXCEPT !.redis = r.conn], "newRedisClient", "error")
                       ELSE [boot EXCEPT !.pc = "migrate", !.redis = r.conn,
                                         !.deferred = Append(@, "redis.Close"),
                                         !.done = Append(@, "newRedisClient")]
            /\ UNCHANGED <<authVars, pool, flight>>

\* runMigrationsFn
RunMigrations ==
    \E ok \in BOOLEAN :
        /\ boot.pc = "migrate"
        /\ boot' = IF ok
                   THEN [boot EXCEPT !.pc = "serve", !.done = Append(@, "runMigrations")]
                   ELSE Return(boot, "runMigrations", "error")
        /\ UNCHANGED <<authVars, pool, flight>>

\* echo.New, router.Setup and startServer: the server listens
RunStartServer ==
    /\ boot.pc = "serve"
    /\ boot' = [boot EXCEPT !.pc = "serving", !.server = "running",
                            !.done = Append(@, "startServer")]
    /\ UNCHANGED <<authVars, pool, flight>>

\* startServer returns, with an error or with nil, and run() returns that
RunServerReturns ==
    \E err \in BOOLEAN :
        /\ boot.pc = "serving"
        /\ boot' = IF err
                   THEN Return([boot EXCEPT !.server = "stopped"], "startServer", "error")
                   ELSE Return([boot EXCEPT !.server = "stopped"], "none", "nil")
        /\ UNCHANGED <<authVars, pool, flight>>

NextBoot == RunWorkers \/ RunEnv \/ RunNewPgxPool \/ RunNewRedisClient \/ RunMigrations
               \/ RunStartServer \/ RunServerReturns

SpecBoot == InitBoot /\ [][NextBoot]_vars

\* the service has been running: bob holds a refresh token from a password
\* grant through c1
InitConc ==
    /\ users = InitUsers
    /\ clients = InitClients
    /\ now = 0
    /\ cache = CacheSet({}, RefreshKey(RandomToken(1)),
                        [user_id |-> Bob, client_id |-> C1, is_admin |-> FALSE], RefreshTTL)
    /\ jwtSecret = "s3cr3t"
    /\ nextTok = 1
    /\ bearer = NoToken
    /\ written = {[key |-> e.key, exp |-> e.exp] : e \in cache}
    /\ last = NoLast
    /\ pool = NewPool(1)
    /\ boot = NewRun(TestEnv)
    /\ flight = NoFlight

NextConc == ConcBegin \/ ConcClient \/ ConcUser \/ ConcRand \/ ConcSet \/ ConcOwner
               \/ ConcGet

SpecConc == InitConc /\ [][NextConc]_vars

-----------------------------------------------------------------------------
(* The state machine *)

Init ==
    /\ users = InitUsers
    /\ clients = InitClients
    /\ cache = {}
    /\ now = 0
    /\ jwtSecret = "s3cr3t"
    /\ nextTok = 0
    /\ bearer = NoToken
    /\ written = {}
    /\ last = NoLast
    /\ pool = NewPool(1)
    /\ boot = NewRun(TestEnv)
    /\ flight = NoFlight

\* POST /oauth/token
Token ==
    \E req \in TokenRequests :
        LET out == TokenHandler(req)
        IN  /\ nextTok + out.drawn <= MaxTokens
            /\ cache' = out.cache
            /\ nextTok' = nextTok + out.drawn
            /\ written' = written \cup
                              {[key |-> e.key, exp |-> e.exp] : e \in out.cache \ cache}
            /\ last' = Record("token", req, out)
            /\ UNCHANGED <<flight, boot, pool, users, clients, now, jwtSecret, bearer>>

\* POST /auth/login
Login ==
    \E req \in LoginRequests :
        LET out == LoginHandler(req)
        IN  /\ cache' = out.cache
            /\ last' = Record("login", req, out)
            /\ UNCHANGED <<flight, boot, pool, users, clients, now, jwtSecret, nextTok, bearer, written>>

\* repository.UpdateUser, as far as the auth core sees it: the admin flag
UpdateUser ==
    \E u \in users, flag \in BOOLEAN :
        /\ u.id \in Changed
        /\ u.is_admin # flag
        /\ users' = (users \ {u}) \cup {[u EXCEPT !.is_admin = flag]}
        /\ last' = NoLast
        /\ UNCHANGED <<flight, boot, pool, clients, cache, now, jwtSecret, nextTok, bearer, written>>

\* repository.DeleteUser; oauth_clients.user_id is ON DELETE CASCADE
DeleteUser ==
    \E u \in users :
        /\ u.id \in Changed
        /\ users' = users \ {u}
        /\ clients' = {c \in clients : c.user_id # u.id}
        /\ last' = NoLast
        /\ UNCHANGED <<flight, boot, pool, cache, now, jwtSecret, nextTok, bearer, written>>

\* time passes; Redis drops the keys whose ttl has run out
Tick ==
    /\ now + TimeStep <= MaxTime
    /\ now' = now + TimeStep
    /\ cache' = {e \in cache : e.exp > now'}
    /\ last' = NoLast
    /\ UNCHANGED <<flight, boot, pool, users, clients, jwtSecret, nextTok, bearer, written>>

\* os.Setenv / a restart under another configuration: the signing secret is
\* set or unset; the cache outlives it
Secrets == {"", "s3cr3t"}
Setenv ==
    \E secret \in Secrets :
        /\ secret # jwtSecret
        /\ jwtSecret' = secret
        /\ last' = NoLast
        /\ UNCHANGED <<flight, boot, pool, users, clients, cache, now, nextTok, bearer, written>>

\* the ttl arguments of the direct calls
TTLs == {AccessTTL, RefreshTTL}

\* a direct call of service.IssueAccessToken
IssueAccess ==
    \E user \in users, ttl \in TTLs :
        LET r == IssueAccessToken(user, ttl)
        IN  /\ last' = [handler |-> "IssueAccessToken", user |-> user, ttl |-> ttl,
                        err |-> r.err, access_token |-> r.token]
            /\ UNCHANGED <<flight, boot, pool, users, clients, cache, now, jwtSecret, nextTok, bearer, written>>

\* a direct call of service.IssueClientAccessToken
IssueClientAccess ==
    \E user \in users, client \in clients, ttl \in TTLs :
        LET r == IssueClientAccessToken(user, client, ttl)
        IN  /\ last' = [handler |-> "IssueClientAccessToken", user |-> user,
                        client |-> client, ttl |-> ttl,
                        err |-> r.err, access_token |-> r.token]
            /\ UNCHANGED <<flight, boot, pool, users, clients, cache, now, jwtSecret, nextTok, bearer, written>>

\* the caller keeps the access token it was just given
Present ==
    /\ last.handler \in {"token", "login", "IssueAccessToken", "IssueClientAccessToken"}
    /\ last.access_token # NoToken
    /\ bearer' = last.access_token
    /\ UNCHANGED <<flight, boot, pool, users, clients, cache, now, jwtSecret, nextTok, written, last>>

\* token strings made outside the service from the claims of a token it
\* issued: signed with another key, under another HMAC method with the same
\* key, under an asymmetric method, unsigned
Forgeries(token) ==
    { [token EXCEPT !.key = "0ther"],
      [token EXCEPT !.alg = "HS384"],
      [token EXCEPT !.alg = "RS256", !.key = "0ther"],
      [token EXCEPT !.alg = "none", !.key = ""] }
Forge ==
    /\ bearer # NoToken
    /\ bearer.alg = "HS256"
    /\ bearer' \in Forgeries(bearer)
    /\ last' = NoLast
    /\ UNCHANGED <<flight, boot, pool, users, clients, cache, now, jwtSecret, nextTok, written>>

\* a direct call of service.VerifyAccessToken with the token the caller holds
Verify ==
    LET r == VerifyAccessToken(bearer)
    IN  /\ last' = [handler |-> "VerifyAccessToken", token |-> bearer,
                    err |-> r.err, claims |-> r.claims]
        /\ UNCHANGED <<flight, boot, pool, users, clients, cache, now, jwtSecret, nextTok, bearer, written>>

\* what comes before the token string in the Authorization header of a
\* protected request: "Bearer ", "bearer ", "Basic ", "Bearer", "Bearer  ", ""
HeaderTexts ==
    { Bytes(<<"B","e","a","r","e","r"," ">>),
      Bytes(<<"b","e","a","r","e","r"," ">>),
      BasicPrefix,
      Bytes(<<"B","e","a","r","e","r">>),
      Bytes(<<"B","e","a","r","e","r"," "," ">>),
      << >> }
Headers == {NoHeader} \cup {Header(text, bearer) : text \in HeaderTexts}

\* a request to a route behind RequireAuth
AuthRequest ==
    \E h \in Headers :
        LET r == RequireAuth("wrapped", h)
        IN  /\ last' = [handler |-> "RequireAuth", header |-> h, status |-> r.status,
                        message |-> r.message, effects |-> r.effects,
                        context |-> r.context]
            /\ UNCHANGED <<flight, boot, pool, users, clients, cache, now, jwtSecret, nextTok, bearer, written>>

\* a request to a route behind RequireAdmin
AdminRequest ==
    \E h \in Headers :
        LET r == RequireAdmin(h)
        IN  /\ last' = [handler |-> "RequireAdmin", header |-> h, status |-> r.status,
                        message |-> r.message, effects |-> r.effects,
                        context |-> r.context]
            /\ UNCHANGED <<flight, boot, pool, users, clients, cache, now, jwtSecret, nextTok, bearer, written>>

Next == Token \/ Login \/ UpdateUser \/ DeleteUser \/ Tick

Spec == Init /\ [][Next]_vars

\* the handlers while the signing secret is set and unset, and the issuing
\* and verifying services called directly
\* a caller holds the access token the service has just issued to a user
InitEnv ==
    /\ users = InitUsers
    /\ clients = InitClients
    /\ cache = {}
    /\ now = 0
    /\ jwtSecret = "s3cr3t"
    /\ nextTok = 0
    /\ bearer \in {IssueAccessToken(user, AccessTTL).token : user \in InitUsers}
    /\ written = {}
    /\ last = NoLast
    /\ pool = NewPool(1)
    /\ boot = NewRun(TestEnv)
    /\ flight = NoFlight

NextEnv == Token \/ Login \/ IssueAccess \/ IssueClientAccess \/ Verify \/ Setenv \/ Tick

SpecEnv == InitEnv /\ [][NextEnv]_vars

\* the token services and the middleware of the protected routes
NextSvc == IssueAccess \/ IssueClientAccess \/ Present \/ Forge \/ Verify
              \/ AuthRequest \/ AdminRequest \/ Setenv \/ Tick

SpecSvc == Init /\ [][NextSvc]_vars

-----------------------------------------------------------------------------
(* The worker pool as a state machine *)

InitPool ==
    /\ users = InitUsers
    /\ clients = InitClients
    /\ cache = {}
    /\ now = 0
    /\ jwtSecret = "s3cr3t"
    /\ nextTok = 0
    /\ bearer = NoToken
    /\ written = {}
    /\ last = NoLast
    /\ pool \in {NewPool(n) : n \in 0..MaxWorkers}
    /\ boot = NewRun(TestEnv)
    /\ flight = NoFlight

\* Submit: p.jobs <- t. The send blocks until a worker receives; on a closed
\* channel it panics
PoolSubmit ==
    \E c \in Calls, isNil \in BOOLEAN :
        /\ ~ pool.crashed
        /\ pool.call[c] = "idle"
        /\ pool' = IF pool.closed
                   THEN [pool EXCEPT !.call[c] = "panicked", !.crashed = TRUE]
                   ELSE [pool EXCEPT !.call[c] = "sending", !.nilTask[c] = isNil]
        /\ UNCHANGED <<authVars, boot, flight>>

\* a worker receives the task of a blocked Submit, which returns; the worker
\* calls the task unless it is nil
PoolReceive ==
    \E w \in 1..pool.n, c \in Calls :
        /\ ~ pool.crashed
        /\ ~ pool.closed
        /\ pool.worker[w].pc = "recv"
        /\ pool.call[c] = "sending"
        /\ pool' = IF pool.nilTask[c]
                   THEN [pool EXCEPT !.call[c] = "returned"]
                   ELSE [pool EXCEPT !.call[c] = "returned",
                                     !.worker[w] = [pc |-> "run", job |-> c],
                                     !.started[c] = @ + 1]
        /\ UNCHANGED <<authVars, boot, flight>>

\* the task a worker is running returns
PoolFinish ==
    \E w \in 1..pool.n :
        /\ ~ pool.crashed
        /\ pool.worker[w].pc = "run"
        /\ pool' = [pool EXCEPT !.finished[pool.worker[w].job] = @ + 1,
                                !.worker[w] = [pc |-> "recv", job |-> 0]]
        /\ UNCHANGED <<authVars, boot, flight>>

\* Stop: close(p.jobs), then p.wg.Wait(). A Submit blocked in its send panics
\* when the channel is closed
PoolStop ==
    /\ ~ pool.crashed
    /\ pool.stop = "idle"
    /\ pool' = [pool EXCEPT
                  !.closed = TRUE,
                  !.stop = "waiting",
                  !.crashed = \E c \in Calls : pool.call[c] = "sending",
                  !.call = [c \in Calls |-> IF pool.call[c] = "sending"
                                            THEN "panicked" ELSE pool.call[c]]]
    /\ UNCHANGED <<authVars, boot, flight>>

\* a worker finds the channel closed; its range loop ends and wg.Done runs
PoolWorkerExit ==
    \E w \in 1..pool.n :
        /\ ~ pool.crashed
        /\ pool.closed
        /\ pool.worker[w].pc = "recv"
        /\ pool' = [pool EXCEPT !.worker[w].pc = "done"]
        /\ UNCHANGED <<authVars, boot, flight>>

\* p.wg.Wait() returns once every worker is done
PoolStopReturn ==
    /\ ~ pool.crashed
    /\ pool.stop = "waiting"
    /\ \A w \in 1..pool.n : pool.worker[w].pc = "done"
    /\ pool' = [pool EXCEPT !.stop = "returned"]
    /\ UNCHANGED <<authVars, boot, flight>>

NextPool == PoolSubmit \/ PoolReceive \/ PoolFinish \/ PoolStop \/ PoolWorkerExit
               \/ PoolStopReturn

\* the Go scheduler runs every runnable goroutine, and every task returns
SpecPool ==
    /\ InitPool
    /\ [][NextPool]_vars
    /\ WF_vars(PoolFinish)
    /\ WF_vars(PoolWorkerExit)
    /\ WF_vars(PoolStopReturn)

-----------------------------------------------------------------------------
(* internal/handler/users: the routes of the calling user *)

StatusNoContent == 204
StatusNotFound == 404

\* c.Get(middleware.ContextUserKey).(*service.CustomClaims)
GetClaims(ctx) ==
    IF ctx = NoContext
    THEN [ok |-> FALSE, claims |-> NoClaims]
    ELSE [ok |-> TRUE, claims |-> ctx[ContextUserKey]]

\* repository.UpdateOAuthClient: UPDATE ... WHERE client_id = $4 RETURNING
\* updated_at; the Scan fails when no row was updated
UpdateOAuthClient(client, updateFails) ==
    IF updateFails \/ ~ \E c \in clients : c.client_id = client.client_id
    THEN [err |-> TRUE, clients |-> clients]
    ELSE [err |-> FALSE,
          clients |-> {c \in clients : c.client_id # client.client_id} \cup {client}]

\* repository.DeleteOAuthClient: DELETE ... WHERE client_id = $1
DeleteOAuthClient(clientID, deleteFails) ==
    IF deleteFails
    THEN [err |-> TRUE, clients |-> clients]
    ELSE [err |-> FALSE, clients |-> {c \in clients : c.client_id # clientID}]

\* service.HashPassword: bcrypt.GenerateFromPassword
HashPassword(password, hashFails) ==
    IF hashFails
    THEN [err |-> TRUE, hash |-> NoUser.password_hash]
    ELSE [err |-> FALSE, hash |-> BcryptHash(password)]

\* repository.UpdateUserPassword: UPDATE users SET password_hash = $1 WHERE id = $2
UpdateUserPassword(userID, passwordHash, updateFails) ==
    IF updateFails
    THEN [err |-> TRUE, users |-> users]
    ELSE [err |-> FALSE,
          users |-> {IF u.id = userID THEN [u EXCEPT !.password_hash = passwordHash] ELSE u :
                        u \in users}]

\* the answer of one of these handlers: status and message, the client in the
\* body, the calls made in order, and the two tables afterwards
Answer(status, message, body, effects, newClients, newUsers) ==
    [status |-> status, message |-> message, body |-> body, effects |-> effects,
     clients |-> newClients, users |-> newUsers]

\* client.UserID != claims.UserID
OwnedByAnyone(client, claims) == TRUE
OwnedBy(client, claims) == client.user_id = claims.user_id

\* GetMyOAuthClientHandler
GetMyOAuthClientHandler(ctx, clientID, fault) ==
    LET g == GetClaims(ctx)
        q == GetOAuthClientByClientID(clientID, fault = "clientQuery")
    IN  IF ~ g.ok \/ g.claims.user_id = 0
        THEN Answer(StatusUnauthorized, "invalid or missing token", NoClient, << >>,
                    clients, users)
        ELSE IF q.err
        THEN Answer(StatusInternalServerError, "err.Error()", NoClient,
                    <<"GetOAuthClientByClientID">>, clients, users)
        ELSE IF ~ OwnedBy(q.client, g.claims)
        THEN Answer(StatusNotFound, "client not found", NoClient,
                    <<"GetOAuthClientByClientID">>, clients, users)
        ELSE Answer(StatusOK, "", q.client, <<"GetOAuthClientByClientID">>, clients, users)

\* c.Validate of api.UpdateOAuthClientRequest: both fields are `required`, a
\* string must be non-empty and a slice non-nil
ValidUpdateOAuthClientRequest(req) == req.client_secret # << >> /\ ~ req.grant_types_nil

\* UpdateMyOAuthClientHandler
UpdateMyOAuthClientHandler(ctx, clientID, req, fault) ==
    LET g == GetClaims(ctx)
        q == GetOAuthClientByClientID(clientID, fault = "clientQuery")
        client == [q.client EXCEPT !.client_secret = req.client_secret,
                                   !.grant_types = req.grant_types]
        u == UpdateOAuthClient(client, fault = "update")
    IN  IF ~ g.ok \/ g.claims.user_id = 0
        THEN Answer(StatusUnauthorized, "invalid or missing token", NoClient, << >>,
                    clients, users)
        ELSE IF fault = "bind"
        THEN Answer(StatusBadRequest, "invalid request", NoClient, << >>, clients, users)
        ELSE IF ~ ValidUpdateOAuthClientRequest(req)
        THEN Answer(StatusBadRequest, "err.Error()", NoClient, << >>, clients, users)
        ELSE IF q.err
        THEN Answer(StatusInternalServerError, "err.Error()", NoClient,
                    <<"GetOAuthClientByClientID">>, clients, users)
        ELSE IF ~ OwnedBy(q.client, g.claims)
        THEN Answer(StatusNotFound, "client not found", NoClient,
                    <<"GetOAuthClientByClientID">>, clients, users)
        ELSE IF u.err
        THEN Answer(StatusInternalServerError, "err.Error()", NoClient,
                    <<"GetOAuthClientByClientID", "UpdateOAuthClient">>, clients, users)
        ELSE Answer(StatusOK, "", client,
                    <<"GetOAuthClientByClientID", "UpdateOAuthClient">>, u.clients, users)

\* DeleteMyOAuthClientHandler
DeleteMyOAuthClientHandler(ctx, clientID, fault) ==
    LET g == GetClaims(ctx)
        q == GetOAuthClientByClientID(clientID, fault = "clientQuery")
        d == DeleteOAuthClient(clientID, fault = "delete")
    IN  IF ~ g.ok \/ g.claims.user_id = 0
        THEN Answer(StatusUnauthorized, "invalid or missing token", NoClient, << >>,
                    clients, users)
        ELSE IF q.err
        THEN Answer(StatusInternalServerError, "err.Error()", NoClient,
                    <<"GetOAuthClientByClientID">>, clients, users)
        ELSE IF ~ OwnedBy(q.client, g.claims)
        THEN Answer(StatusNotFound, "client not found", NoClient,
                    <<"GetOAuthClientByClientID">>, clients, users)
        ELSE IF d.err
        THEN Answer(StatusInternalServerError, "err.Error()", NoClient,
                    <<"GetOAuthClientByClientID", "DeleteOAuthClient">>, clients, users)
        ELSE Answer(StatusNoContent, "", NoClient,
                    <<"GetOAuthClientByClientID", "DeleteOAuthClient">>, d.clients, users)

\* c.Validate of api.UpdateMyPasswordRequest: both fields are `required`
ValidUpdateMyPasswordRequest(req) == req.old_password # "" /\ req.new_password # ""

\* UpdateMyUserPasswordHandler
UpdateMyUserPasswordHandlerUnchecked(ctx, req, fault) ==
    LET g == GetClaims(ctx)
        q == GetUserByID(g.claims.user_id, fault = "userQuery")
        h == HashPassword(req.new_password, fault = "hash")
        u == UpdateUserPassword(g.claims.user_id, h.hash, fault = "update")
    IN  IF fault = "bind"
        THEN Answer(StatusBadRequest, "invalid form data", NoClient, << >>, clients, users)
        ELSE IF ~ ValidUpdateMyPasswordRequest(req)
        THEN Answer(StatusBadRequest, "err.Error()", NoClient, << >>, clients, users)
        ELSE IF ~ g.ok \/ g.claims.user_id = 0
        THEN Answer(StatusUnauthorized, "invalid or missing token", NoClient, << >>,
                    clients, users)
        ELSE IF q.err
        THEN Answer(StatusInternalServerError, "err.Error()", NoClient,
                    <<"GetUserByID">>, clients, users)
        ELSE IF h.err
        THEN Answer(StatusInternalServerError, "failed to hash new password", NoClient,
                    <<"GetUserByID", "HashPassword">>, clients, users)
        ELSE IF u.err
        THEN Answer(StatusInternalServerError, "err.Error()", NoClient,
                    <<"GetUserByID", "HashPassword", "UpdateUserPassword">>,
                    clients, users)
        ELSE Answer(StatusNoContent, "", NoClient,
                    <<"GetUserByID", "HashPassword", "UpdateUserPassword">>,
                    clients, u.users)
UpdateMyUserPasswordHandler(ctx, req, fault) ==
    LET g == GetClaims(ctx)
        q == GetUserByID(g.claims.user_id, fault = "userQuery")
        h == HashPassword(req.new_password, fault = "hash")
        u == UpdateUserPassword(g.claims.user_id, h.hash, fault = "update")
    IN  IF fault = "bind"
        THEN Answer(StatusBadRequest, "invalid form data", NoClient, << >>, clients, users)
        ELSE IF ~ ValidUpdateMyPasswordRequest(req)
        THEN Answer(StatusBadRequest, "err.Error()", NoClient, << >>, clients, users)
        ELSE IF ~ g.ok \/ g.claims.user_id = 0
        THEN Answer(StatusUnauthorized, "invalid or missing token", NoClient, << >>,
                    clients, users)
        ELSE IF q.err
        THEN Answer(StatusInternalServerError, "err.Error()", NoClient,
                    <<"GetUserByID">>, clients, users)
        ELSE IF ~ AuthenticateUser(q.user, req.old_password)
        THEN Answer(StatusUnauthorized, "invalid current password", NoClient,
                    <<"GetUserByID", "AuthenticateUser">>, clients, users)
        ELSE IF h.err
        THEN Answer(StatusInternalServerError, "failed to hash new password", NoClient,
                    <<"GetUserByID", "AuthenticateUser", "HashPassword">>, clients, users)
        ELSE IF u.err
        THEN Answer(StatusInternalServerError, "err.Error()", NoClient,
                    <<"GetUserByID", "AuthenticateUser", "HashPassword",
                      "UpdateUserPassword">>, clients, users)
        ELSE Answer(StatusNoContent, "", NoClient,
                    <<"GetUserByID", "AuthenticateUser", "HashPassword",
                      "UpdateUserPassword">>, clients, u.users)

\* the contexts these handlers are entered with: nothing under the key, or
\* claims with user id 0, alice's or bob's
ClaimsFor(userID) == [NoClaims EXCEPT !.user_id = userID]
Contexts == {NoContext} \cup {(ContextUserKey :> ClaimsFor(id)) : id \in {0, Alice, Bob}}

\* the client_id path parameter
ClientIDs == {C1, C2, C3, CX}

SNew == Bytes(<<"n","e","w">>)
UpdateOAuthClientRequests ==
    { [client_secret |-> SNew, grant_types |-> <<"client_credentials">>,
       grant_types_nil |-> FALSE],
      [client_secret |-> << >>, grant_types |-> <<"client_credentials">>,
       grant_types_nil |-> FALSE],
      [client_secret |-> SNew, grant_types |-> << >>, grant_types_nil |-> TRUE] }

UpdateMyPasswordRequests ==
    { [old_password |-> o, new_password |-> n] :
        o \in {"pw1", "pw2", ""}, n \in {"pw2", "pw3", ""} }

\* `last` after a request to one of these routes
RecordMe(handler, ctx, clientID, req, fault, out) ==
    [handler |-> handler, context |-> ctx, client_id |-> clientID, req |-> req,
     fault |-> fault, status |-> out.status, message |-> out.message,
     body |-> out.body, effects |-> out.effects, clients0 |-> clients, users0 |-> users]

\* GET /users/me/oauth/clients/:client_id
GetMyOAuthClient ==
    \E ctx \in Contexts, clientID \in ClientIDs, fault \in {"none", "clientQuery"} :
        LET out == GetMyOAuthClientHandler(ctx, clientID, fault)
        IN  /\ clients' = out.clients
            /\ last' = RecordMe("GetMyOAuthClient", ctx, clientID, << >>, fault, out)
            /\ UNCHANGED <<flight, boot, pool, users, cache, now, jwtSecret, nextTok, bearer, written>>

\* PUT /users/me/oauth/clients/:client_id
UpdateMyOAuthClient ==
    \E ctx \in Contexts, clientID \in ClientIDs, req \in UpdateOAuthClientRequests,
       fault \in {"none", "bind", "clientQuery", "update"} :
        LET out == UpdateMyOAuthClientHandler(ctx, clientID, req, fault)
        IN  /\ clients' = out.clients
            /\ last' = RecordMe("UpdateMyOAuthClient", ctx, clientID, req, fault, out)
            /\ UNCHANGED <<flight, boot, pool, users, cache, now, jwtSecret, nextTok, bearer, written>>

\* DELETE /users/me/oauth/clients/:client_id
DeleteMyOAuthClient ==
    \E ctx \in Contexts, clientID \in ClientIDs, fault \in {"none", "clientQuery", "delete"} :
        LET out == DeleteMyOAuthClientHandler(ctx, clientID, fault)
        IN  /\ clients' = out.clients
            /\ last' = RecordMe("DeleteMyOAuthClient", ctx, clientID, << >>, fault, out)
            /\ UNCHANGED <<flight, boot, pool, users, cache, now, jwtSecret, nextTok, bearer, written>>

\* PATCH /users/me/password
UpdateMyUserPassword ==
    \E ctx \in Contexts, req \in UpdateMyPasswordRequests,
       fault \in {"none", "bind", "userQuery", "hash", "update"} :
        LET out == UpdateMyUserPasswordHandler(ctx, req, fault)
        IN  /\ users' = out.users
            /\ last' = RecordMe("UpdateMyUserPassword", ctx, << >>, req, fault, out)
            /\ UNCHANGED <<flight, boot, pool, clients, cache, now, jwtSecret, nextTok, bearer, written>>

\* the routes of the calling user's OAuth clients
NextMe == GetMyOAuthClient \/ UpdateMyOAuthClient \/ DeleteMyOAuthClient \/ DeleteUser

SpecMe == Init /\ [][NextMe]_vars

\* the password route of the calling user
NextPassword == UpdateMyUserPassword \/ DeleteUser

SpecPassword == Init /\ [][NextPassword]_vars

\* the stores changing under tokens already issued. The service has been
\* running: bob holds a refresh token from a password grant through c1
InitFrame ==
    /\ users = InitUsers
    /\ clients = InitClients
    /\ now = 0
    /\ cache = CacheSet({}, RefreshKey(RandomToken(1)),
                        [user_id |-> Bob, client_id |-> C1, is_admin |-> FALSE], RefreshTTL)
    /\ jwtSecret = "s3cr3t"
    /\ nextTok = 1
    /\ bearer = NoToken
    /\ written = {[key |-> e.key, exp |-> e.exp] : e \in cache}
    /\ last = NoLast
    /\ pool = NewPool(1)
    /\ boot = NewRun(TestEnv)
    /\ flight = NoFlight

\* repository.UpdateUserPassword on the row of a user
ChangePassword ==
    \E u \in users :
        /\ u.id \in Changed
        /\ users' = UpdateUserPassword(u.id, BcryptHash("pw3"), FALSE).users
        /\ users' # users
        /\ last' = NoLast
        /\ UNCHANGED <<flight, boot, pool, clients, cache, now, jwtSecret, nextTok, bearer, written>>

\* repository.DeleteOAuthClient on a client of such a user
DeleteClient ==
    \E c \in clients :
        /\ c.user_id \in Changed
        /\ clients' = DeleteOAuthClient(c.client_id, FALSE).clients
        /\ last' = NoLast
        /\ UNCHANGED <<flight, boot, pool, users, cache, now, jwtSecret, nextTok, bearer, written>>

NextFrame == IssueAccess \/ IssueClientAccess \/ Present \/ Verify \/ UpdateUser
                \/ DeleteUser \/ ChangePassword \/ DeleteClient \/ Tick

SpecFrame == InitFrame /\ [][NextFrame]_vars

-----------------------------------------------------------------------------
(* Vocabulary of the properties *)

IsToken == last.handler = "token"
IsLogin == last.handler = "login"

\* the header a client sends when it presents its own id and secret
ClientAuth == [c \in InitClients |-> BasicAuth(c.client_id, c.client_secret)]
Presented(c) == last.req.auth = ClientAuth[c]

\* the request came from a registered client with its stored secret, and the
\* client lookup did not fail
Authenticated ==
    /\ last.req.fault \notin {"bind", "clientQuery"}
    /\ \E c \in clients : Presented(c)

Has(seq, x) == \E i \in 1..Len(seq) : seq[i] = x
Called(name) == Has(last.effects, name)

\* the user the submitted name and password belong to, if any
CredentialsOf(u) ==
    /\ u.name = last.req.username
    /\ u.password_hash = BcryptHash(last.req.password)

NothingIssued ==
    /\ last.access_token = NoToken
    /\ last.refresh_token = NoRefreshToken
    /\ last.signed = {}
    /\ cache = last.cache0

\* the routes of the calling user's OAuth clients, and the user id of the
\* claims the request came with (0 when there are none)
IsMyOAuthClient ==
    last.handler \in {"GetMyOAuthClient", "UpdateMyOAuthClient", "DeleteMyOAuthClient"}
IsMyPassword == last.handler = "UpdateMyUserPassword"
CallerID == GetClaims(last.context).claims.user_id

\* the request body passed Bind and Validate (only the update route has one)
BodyAccepted ==
    last.handler = "UpdateMyOAuthClient"
        => last.fault # "bind" /\ ValidUpdateOAuthClientRequest(last.req)

-----------------------------------------------------------------------------
(* C1: a request of an authenticated client for a grant_type that is not in  *)
(* that client's stored grant-type set ends with 400 'unauthorized           *)
(* grant_type'; no user is looked up, no access token is signed and no       *)
(* refresh-token record is written, valid user credentials or not.           *)
Inv_C1 ==
    \A c \in clients :
        ( /\ IsToken
          /\ Authenticated
          /\ Presented(c)
          /\ ~ Has(c.grant_types, last.req.grant_type) )
        => /\ last.status = StatusBadRequest
           /\ last.message = "unauthorized grant_type"
           /\ ~ Called("GetUserByName")
           /\ ~ Called("GetUserByID")
           /\ NothingIssued

\* the client with grants {foo, refresh_token} asks for the password grant
\* with alice's valid name and password
Wit_C1 ==
    /\ IsToken
    /\ last.req.grant_type = "password"
    /\ last.req.auth = BasicAuth(C3, S3)
    /\ \E u \in users : CredentialsOf(u)
    /\ last.message = "unauthorized grant_type"

(* C2: the refresh_token grant is checked against the client's grant-type    *)
(* set like the other grants: a client whose set lacks 'refresh_token' is    *)
(* answered 'unauthorized grant_type', also when the refresh token it        *)
(* presents exists in the cache; the cache is not read.                      *)
Inv_C2 ==
    \A c \in clients :
        ( /\ IsToken
          /\ Authenticated
          /\ Presented(c)
          /\ last.req.grant_type = "refresh_token"
          /\ ~ Has(c.grant_types, "refresh_token") )
        => /\ last.status = StatusBadRequest
           /\ last.message = "unauthorized grant_type"
           /\ ~ Called("ValidateRefreshToken")
           /\ ~ Called("cache.Get")
           /\ last.access_token = NoToken

\* the client with grants {client_credentials, password} presents a refresh
\* token that is in the cache
Wit_C2 ==
    /\ IsToken
    /\ last.req.grant_type = "refresh_token"
    /\ last.req.auth = BasicAuth(C2, S2)
    /\ \E e \in cache : e.key = RefreshKey(last.req.refresh_token)
    /\ last.message = "unauthorized grant_type"

\* a refresh_token grant that ended with 200
RefreshSucceeded ==
    /\ IsToken
    /\ last.req.grant_type = "refresh_token"
    /\ last.status = StatusOK

(* C3: after a successful refresh_token grant the access token carries the   *)
(* admin flag that the user's record has in the store at that moment.        *)
Inv_C3 ==
    RefreshSucceeded =>
        \A u \in users :
            u.id = last.access_token.user_id => last.access_token.is_admin = u.is_admin

(* C4: in the refresh_token grant, when the record is found but the user it  *)
(* names is no longer in the store, the request fails with a server error    *)
(* and no access token is issued.                                            *)
Inv_C4 ==
    \A e \in last.cache0 :
        ( /\ IsToken
          /\ Authenticated
          /\ last.req.grant_type = "refresh_token"
          /\ last.req.fault = "none"
          /\ \E c \in clients : Presented(c) /\ Has(c.grant_types, "refresh_token")
          /\ e.key = RefreshKey(last.req.refresh_token)
          /\ ~ \E u \in users : u.id = e.val.user_id )
        => /\ last.status = StatusInternalServerError
           /\ last.access_token = NoToken

(* C5: a successful refresh_token grant returns the refresh token that was   *)
(* submitted and leaves the cache as it was, so the record is still there;   *)
(* and every refresh_token grant of an authorized client that presents a     *)
(* token whose record is in the cache succeeds. Together: a token can be     *)
(* redeemed again and again until its record expires.                        *)
Inv_C5 ==
    /\ RefreshSucceeded =>
          /\ last.refresh_token = last.req.refresh_token
          /\ cache = last.cache0
          /\ \E e \in cache : e.key = RefreshKey(last.req.refresh_token)
    /\ ( /\ IsToken
         /\ Authenticated
         /\ last.req.grant_type = "refresh_token"
         /\ last.req.fault = "none"
         /\ jwtSecret # ""
         /\ \E c \in clients : Presented(c) /\ Has(c.grant_types, "refresh_token")
         /\ \E e \in last.cache0 : e.key = RefreshKey(last.req.refresh_token) )
       => RefreshSucceeded

\* a token is redeemed after the clock has advanced, its record still there
Wit_C5 ==
    /\ RefreshSucceeded
    /\ now > 0
    /\ last.refresh_token = RandomToken(1)
    /\ \E e \in cache : e.key = RefreshKey(RandomToken(1)) /\ e.exp > now

(* C6: a successful password grant issues an access token with the id and    *)
(* the admin flag of the user whose name and password were submitted, adds   *)
(* exactly one record to the cache, under 'refresh_token:<token>' with that  *)
(* user's id, the authenticated client's id and that user's admin flag, and  *)
(* returns the access token and that refresh token.                          *)
Inv_C6 ==
    ( /\ IsToken
      /\ last.req.grant_type = "password"
      /\ last.status = StatusOK )
    => \E u \in users, c \in clients :
          /\ CredentialsOf(u)
          /\ Presented(c)
          /\ last.access_token # NoToken
          /\ last.access_token.user_id = u.id
          /\ last.access_token.is_admin = u.is_admin
          /\ last.refresh_token # NoRefreshToken
          /\ last.cache0 \subseteq cache
          /\ cache \ last.cache0 =
                { [key |-> RefreshKey(last.refresh_token),
                   val |-> [user_id |-> u.id, client_id |-> c.client_id,
                            is_admin |-> u.is_admin],
                   exp |-> now + RefreshTTL] }

\* alice, an admin, obtains her tokens through client c1
Wit_C6 ==
    /\ IsToken
    /\ last.req.grant_type = "password"
    /\ last.status = StatusOK
    /\ last.access_token.user_id = Alice
    /\ last.access_token.is_admin
    /\ \E e \in cache : e.val.client_id = C1 /\ e.val.is_admin

\* the request reached the check of the user's name and password
ReachedCredentials ==
    /\ last.req.fault = "none"
    /\ \/ IsLogin /\ last.req.username # "" /\ last.req.password # ""
       \/ /\ IsToken
          /\ last.req.grant_type = "password"
          /\ \E c \in clients : Presented(c) /\ Has(c.grant_types, "password")

(* C7: in the password grant and in LoginHandler, a request whose user name  *)
(* is not in the store and a request whose password does not match the       *)
(* stored hash get the same response, 401 'invalid credentials', and neither *)
(* issues a token nor writes to the cache.                                   *)
Inv_C7 ==
    ( /\ ReachedCredentials
      /\ ~ \E u \in users : CredentialsOf(u) )
    => /\ last.status = StatusUnauthorized
       /\ last.message = "invalid credentials"
       /\ NothingIssued

\* a known user with a wrong password, at the token endpoint
Wit_C7 ==
    /\ IsToken
    /\ ReachedCredentials
    /\ \E u \in users : u.name = last.req.username
    /\ ~ \E u \in users : CredentialsOf(u)
    /\ last.message = "invalid credentials"

\* the header is a well-formed Basic credential pair
WellFormedAuth == last.req.auth \in GoodAuths \cup BadClientAuths

(* C8: a request whose client id is not in the store and a request whose     *)
(* secret differs from the stored one get the same status and message, and   *)
(* processing stops there: nothing but the client lookup has happened.       *)
Inv_C8 ==
    ( /\ IsToken
      /\ last.req.fault = "none"
      /\ WellFormedAuth
      /\ ~ \E c \in clients : Presented(c) )
    => /\ last.status = StatusUnauthorized
       /\ last.message = "invalid client credentials"
       /\ last.effects = <<"GetOAuthClientByClientID">>
       /\ NothingIssued

\* a registered client with another client's secret
Wit_C8 ==
    /\ IsToken
    /\ last.req.auth = BasicAuth(C1, S3)
    /\ \E c \in clients : c.client_id = C1
    /\ last.message = "invalid client credentials"

Recognized == {"password", "client_credentials", "refresh_token"}

(* C9 as claimed: every grant_type outside the three recognized values is    *)
(* answered 'unsupported grant_type' before any store access.                *)
Inv_C9_claimed ==
    ( /\ IsToken
      /\ last.req.fault = "none"
      /\ WellFormedAuth
      /\ last.req.grant_type \notin Recognized )
    => /\ last.message = "unsupported grant_type"
       /\ last.effects = << >>

(* C9: a grant_type outside the three recognized values, sent by an          *)
(* authenticated client, is answered 400 after the client lookup and nothing *)
(* else: 'unauthorized grant_type' when the value is not in the client's     *)
(* stored set, 'unsupported grant_type' when it is.                          *)
Inv_C9 ==
    \A c \in clients :
        ( /\ IsToken
          /\ Authenticated
          /\ Presented(c)
          /\ last.req.grant_type \notin Recognized )
        => /\ last.status = StatusBadRequest
           /\ last.message = IF Has(c.grant_types, last.req.grant_type)
                              THEN "unsupported grant_type"
                              ELSE "unauthorized grant_type"
           /\ last.effects = <<"GetOAuthClientByClientID">>
           /\ NothingIssued

\* the client whose stored set holds 'foo' asks for grant_type=foo
Wit_C9 ==
    /\ IsToken
    /\ last.req.grant_type = "foo"
    /\ last.req.auth = BasicAuth(C3, S3)
    /\ last.message = "unsupported grant_type"

(* C10: an Authorization header that is absent, lacks the 'Basic ' prefix,   *)
(* is not base64 or decodes to a payload without ':' is answered 400         *)
(* 'invalid authorization header' before any store access; a payload is      *)
(* split at its first ':' only, so a secret that contains ':' is compared    *)
(* whole: the client that presents it is authenticated, and the same secret  *)
(* cut at its ':' is not.                                                    *)
Inv_C10 ==
    /\ ( /\ IsToken
         /\ last.req.fault # "bind"
         /\ last.req.auth \in MalformedAuths )
       => /\ last.status = StatusBadRequest
          /\ last.message = "invalid authorization header"
          /\ last.effects = << >>
          /\ NothingIssued
    /\ ( /\ IsToken
         /\ last.req.fault = "none"
         /\ last.req.auth = BasicAuth(C2, S2)
         /\ \E c \in clients : c.client_id = C2 /\ c.client_secret = S2 )
       => /\ last.message \notin {"invalid authorization header", "invalid client credentials"}
          /\ last.status # StatusUnauthorized
    /\ ( /\ IsToken
         /\ last.req.fault = "none"
         /\ last.req.auth = BasicAuth(C2, Bytes(<<"s">>)) )
       => last.message = "invalid client credentials"

\* the client whose secret is "s:2" is authenticated and gets its token
Wit_C10 ==
    /\ IsToken
    /\ last.req.auth = BasicAuth(C2, S2)
    /\ Has(S2, Colon)
    /\ last.req.grant_type = "client_credentials"
    /\ last.status = StatusOK

(* C11: in the password grant, a request whose username or password is       *)
(* empty is rejected as a validation failure (400) before any store lookup:  *)
(* no user lookup and no password comparison is made for it.                 *)
Inv_C11 ==
    ( /\ IsToken
      /\ Authenticated
      /\ last.req.fault = "none"
      /\ last.req.grant_type = "password"
      /\ \E c \in clients : Presented(c) /\ Has(c.grant_types, "password")
      /\ (last.req.username = "" \/ last.req.password = "") )
    => /\ last.status = StatusBadRequest
       /\ ~ Called("GetUserByName")
       /\ ~ Called("AuthenticateUser")

(* C12: IssueClientAccessToken returns a token only when the given user's id  *)
(* equals the client's owning user id; on a mismatch it returns an error and *)
(* no token. A token it returns carries the owner's id and admin flag and    *)
(* the client's id. In the client_credentials grant an error of the call is  *)
(* answered 500 without a token, and a token issued is the owner's.          *)
Inv_C12 ==
    /\ last.handler = "IssueClientAccessToken" =>
          /\ last.user.id # last.client.user_id => last.err
          /\ last.err => last.access_token = NoToken
          /\ ~ last.err =>
                /\ last.user.id = last.client.user_id
                /\ last.access_token.user_id = last.client.user_id
                /\ last.access_token.is_admin = last.user.is_admin
                /\ last.access_token.client_id = last.client.client_id
    /\ ( /\ IsToken
         /\ last.req.grant_type = "client_credentials"
         /\ Called("IssueClientAccessToken") )
       => \E c \in clients, owner \in users :
             /\ Presented(c)
             /\ owner.id = c.user_id
             /\ IF IssueClientAccessToken(owner, c, AccessTTL).err
                THEN /\ last.status = StatusInternalServerError
                     /\ last.access_token = NoToken
                     /\ last.signed = {}
                ELSE /\ last.status = StatusOK
                     /\ last.access_token.user_id = owner.id
                     /\ last.access_token.is_admin = owner.is_admin
                     /\ last.access_token.client_id = c.client_id

\* a user who does not own the client asks for the client's token while the
\* signing secret is set
Wit_C12 ==
    /\ last.handler = "IssueClientAccessToken"
    /\ jwtSecret # ""
    /\ last.user.id # last.client.user_id
    /\ last.err
    /\ last.access_token = NoToken

\* the request reached the signing of an access token
ReachedIssuance == Called("IssueAccessToken") \/ Called("IssueClientAccessToken")

(* C13: while no signing secret is configured, IssueAccessToken and           *)
(* IssueClientAccessToken return an error and no token, VerifyAccessToken     *)
(* returns an error and no claims for every token, and no request to          *)
(* TokenHandler or LoginHandler is answered with an access token: every       *)
(* request that reaches the signing of a token, and so every request with     *)
(* valid credentials, is answered 500.                                        *)
Inv_C13 ==
    jwtSecret = "" =>
        /\ last.handler \in {"IssueAccessToken", "IssueClientAccessToken"} =>
              last.err /\ last.access_token = NoToken
        /\ last.handler = "VerifyAccessToken" =>
              last.err /\ last.claims = NoClaims
        /\ (IsToken \/ IsLogin) =>
              /\ last.status # StatusOK
              /\ last.access_token = NoToken
              /\ last.signed = {}
              /\ ReachedIssuance => last.status = StatusInternalServerError
              /\ (ReachedCredentials /\ \E u \in users : CredentialsOf(u)) =>
                    last.status = StatusInternalServerError
              /\ ( /\ IsToken
                   /\ Authenticated
                   /\ last.req.fault = "none"
                   /\ last.req.grant_type = "refresh_token"
                   /\ \E c \in clients : Presented(c) /\ Has(c.grant_types, "refresh_token")
                   /\ \E e \in last.cache0 : e.key = RefreshKey(last.req.refresh_token) )
                 => last.status = StatusInternalServerError

\* a refresh token issued while the secret was set is redeemed after the
\* secret was unset
Wit_C13 ==
    /\ jwtSecret = ""
    /\ IsToken
    /\ last.req.grant_type = "refresh_token"
    /\ \E e \in cache : e.key = RefreshKey(last.req.refresh_token)
    /\ last.status = StatusInternalServerError
    /\ last.access_token = NoToken

\* the token under verification is one IssueAccessToken signs under the
\* secret now configured
IssuedUnderSecret(token) ==
    /\ jwtSecret # ""
    /\ token.alg = "HS256"
    /\ token.key = jwtSecret
    /\ token.client_id = << >>
    /\ token.exp > token.iat

(* C14: IssueAccessToken puts the user's id and admin flag in the token, with *)
(* iat = now and exp = now + ttl; VerifyAccessToken of such a token under the *)
(* same secret returns claims with that id and that flag at every time        *)
(* before exp, and an error at every time after exp.                          *)
Inv_C14 ==
    /\ (last.handler = "IssueAccessToken" /\ ~ last.err) =>
          /\ last.access_token.user_id = last.user.id
          /\ last.access_token.is_admin = last.user.is_admin
          /\ last.access_token.iat = now
          /\ last.access_token.exp = now + last.ttl
          /\ IssuedUnderSecret(last.access_token)
    /\ (last.handler = "VerifyAccessToken" /\ IssuedUnderSecret(last.token)) =>
          /\ now < last.token.exp =>
                /\ ~ last.err
                /\ last.claims.user_id = last.token.user_id
                /\ last.claims.is_admin = last.token.is_admin
          /\ now > last.token.exp => last.err /\ last.claims = NoClaims

\* an admin's token is verified after time has passed and before it expires
Wit_C14 ==
    /\ last.handler = "VerifyAccessToken"
    /\ IssuedUnderSecret(last.token)
    /\ last.token.iat < now
    /\ now < last.token.exp
    /\ ~ last.err
    /\ last.claims.user_id = Alice
    /\ last.claims.is_admin

(* C15: VerifyAccessToken returns an error for every token signed with a      *)
(* secret other than the configured one and for every token whose signing    *)
(* algorithm is not HS256.                                                   *)
Inv_C15 ==
    ( /\ last.handler = "VerifyAccessToken"
      /\ (last.token.key # jwtSecret \/ last.token.alg # "HS256") )
    => last.err

(* C16: the password grant returns a refresh token only when the record      *)
(* 'refresh_token:<token>' has been written to the cache; when the random    *)
(* source, the serialization or the cache write fails IssueRefreshToken      *)
(* returns an error and no token, the cache is left as it was, and the grant *)
(* answers 500 with neither an access token nor a refresh token.             *)
Inv_C16 ==
    ( /\ IsToken
      /\ last.req.grant_type = "password"
      /\ Called("IssueRefreshToken") )
    => /\ last.refresh_token # NoRefreshToken =>
             /\ Called("cache.Set")
             /\ \E e \in cache : e.key = RefreshKey(last.refresh_token)
             /\ last.req.fault = "none"
       /\ last.req.fault \in {"randRead", "jsonMarshal", "cacheSet"} =>
             /\ last.status = StatusInternalServerError
             /\ last.message = "failed to issue refresh token"
             /\ last.access_token = NoToken
             /\ last.refresh_token = NoRefreshToken
             /\ cache = last.cache0

\* the cache write fails after the token was drawn and the record serialized
Wit_C16 ==
    /\ IsToken
    /\ last.req.grant_type = "password"
    /\ last.req.fault = "cacheSet"
    /\ Called("cache.Set")
    /\ last.drawn > 0
    /\ last.status = StatusInternalServerError
    /\ last.refresh_token = NoRefreshToken

(* C17: a record written to the cache at time t with ttl d keeps the expiry   *)
(* t + d for as long as it is there: redeeming it does not rewrite it; the   *)
(* cache never holds a record whose expiry has passed; and a refresh_token   *)
(* grant for a token whose expiry has passed issues no access token, and     *)
(* answers 401 'invalid refresh token' when the client is authorized.        *)
Inv_C17 ==
    /\ \A e \in cache :
          /\ e.exp > now
          /\ [key |-> e.key, exp |-> e.exp] \in written
    /\ \A w1 \in written, w2 \in written : w1.key = w2.key => w1.exp = w2.exp
    /\ \A w \in written :
          ( /\ IsToken
            /\ last.req.grant_type = "refresh_token"
            /\ w.key = RefreshKey(last.req.refresh_token)
            /\ now > w.exp )
          => /\ last.status # StatusOK
             /\ last.access_token = NoToken
             /\ last.signed = {}
             /\ ( /\ Authenticated
                  /\ last.req.fault = "none"
                  /\ \E c \in clients : Presented(c) /\ Has(c.grant_types, "refresh_token") )
                => /\ last.status = StatusUnauthorized
                   /\ last.message = "invalid refresh token"
    /\ RefreshSucceeded =>
          \E w \in written : w.key = RefreshKey(last.req.refresh_token) /\ now < w.exp

\* a token that was issued, and redeemed meanwhile or not, is presented by an
\* authorized client after its expiry
Wit_C17 ==
    /\ IsToken
    /\ last.req.grant_type = "refresh_token"
    /\ \E w \in written : w.key = RefreshKey(last.req.refresh_token) /\ now > w.exp
    /\ last.status = StatusUnauthorized
    /\ last.message = "invalid refresh token"

\* the status class the cause of the last token request's outcome belongs to:
\* 400 malformed, unsupported or unauthorized grant; 401 invalid client,
\* invalid user credentials, missing or expired refresh token; 500 signing
\* configuration and store-access failures
ExpectedStatus ==
    LET req == last.req
        grantOf(c) ==
            CASE req.grant_type = "password" ->
                    IF req.fault = "userQuery" THEN StatusInternalServerError
                    ELSE IF ~ \E u \in users : CredentialsOf(u) THEN StatusUnauthorized
                    ELSE IF jwtSecret = "" THEN StatusInternalServerError
                    ELSE IF req.fault \in {"randRead", "jsonMarshal", "cacheSet"}
                    THEN StatusInternalServerError
                    ELSE StatusOK
              [] req.grant_type = "client_credentials" ->
                    IF req.fault = "userQuery" \/ jwtSecret = "" \/
                       ~ \E u \in users : u.id = c.user_id
                    THEN StatusInternalServerError
                    ELSE StatusOK
              [] req.grant_type = "refresh_token" ->
                    IF req.fault = "cacheGet" THEN StatusInternalServerError
                    ELSE IF ~ \E e \in last.cache0 : e.key = RefreshKey(req.refresh_token)
                    THEN StatusUnauthorized
                    ELSE IF jwtSecret = "" THEN StatusInternalServerError
                    ELSE StatusOK
              [] OTHER -> StatusBadRequest
    IN  IF req.fault = "bind" \/ req.auth \in MalformedAuths THEN StatusBadRequest
        ELSE IF req.fault = "clientQuery" THEN StatusInternalServerError
        ELSE IF ~ \E c \in clients : Presented(c) THEN StatusUnauthorized
        ELSE LET c == CHOOSE c \in clients : Presented(c)
             IN  IF ~ Has(c.grant_types, req.grant_type)
                 THEN StatusBadRequest
                 ELSE grantOf(c)

(* C18: every outcome of TokenHandler has the status of the class of its      *)
(* cause; in particular a cache read failure that is not a miss, in the      *)
(* refresh_token grant, and a store failure that is not 'not found', in the  *)
(* client lookup, are answered 500 and not 401.                              *)
Inv_C18 == IsToken => last.status = ExpectedStatus

\* the last request went through the middleware to the wrapped handler
NextCalled == Has(last.effects, "next")

\* the header is "Bearer <token>", in any letter case of the scheme, and
\* VerifyAccessToken accepts the token
BearerAccepted(h) ==
    /\ h.text \in {Bytes(<<"B","e","a","r","e","r"," ">>), Bytes(<<"b","e","a","r","e","r"," ">>)}
    /\ ~ VerifyAccessToken(h.token).err

(* C19: RequireAuth calls the wrapped handler exactly when the Authorization  *)
(* header holds a Bearer token that VerifyAccessToken accepts, and by then   *)
(* the verified claims are in the context under 'user'; otherwise it answers *)
(* 401 and the handler is not called. RequireAdmin calls the handler exactly *)
(* when in addition the claims have is_admin = true; it answers 403 for an   *)
(* accepted token with is_admin = false, and 401 for the rest.               *)
Inv_C19 ==
    last.handler \in {"RequireAuth", "RequireAdmin"} =>
        /\ NextCalled =>
              /\ BearerAccepted(last.header)
              /\ last.effects = <<"c.Set", "next">>
              /\ last.context[ContextUserKey] = VerifyAccessToken(last.header.token).claims
              /\ last.context[ContextUserKey].user_id = last.header.token.user_id
              /\ last.status = StatusOK
        /\ ~ BearerAccepted(last.header) =>
              /\ ~ NextCalled
              /\ last.status = StatusUnauthorized
              /\ last.context = NoContext
        /\ (last.handler = "RequireAuth" /\ BearerAccepted(last.header)) => NextCalled
        /\ (last.handler = "RequireAdmin" /\ BearerAccepted(last.header)) =>
              IF last.header.token.is_admin
              THEN NextCalled
              ELSE ~ NextCalled /\ last.status = StatusForbidden

\* a user who is no admin presents a valid token at an admin route
Wit_C19 ==
    /\ last.handler = "RequireAdmin"
    /\ BearerAccepted(last.header)
    /\ ~ last.header.token.is_admin
    /\ last.status = StatusForbidden
    /\ ~ NextCalled

(* C20: LoginHandler answers 200 with an access token only when the named     *)
(* user exists and the password matches the stored hash, and the token then  *)
(* carries that user's id and admin flag; on every path it returns no        *)
(* refresh token, draws no random token, and neither reads nor writes the    *)
(* cache.                                                                    *)
Inv_C20 ==
    IsLogin =>
        /\ (last.status = StatusOK \/ last.access_token # NoToken) =>
              /\ last.status = StatusOK
              /\ last.req.fault = "none"
              /\ \E u \in users :
                    /\ CredentialsOf(u)
                    /\ last.access_token.user_id = u.id
                    /\ last.access_token.is_admin = u.is_admin
                    /\ last.access_token.client_id = << >>
        /\ last.refresh_token = NoRefreshToken
        /\ last.drawn = 0
        /\ cache = last.cache0
        /\ \A i \in 1..Len(last.effects) :
              last.effects[i] \in {"GetUserByName", "AuthenticateUser", "IssueAccessToken"}

\* alice logs in while the cache holds a refresh-token record
Wit_C20 ==
    /\ IsLogin
    /\ last.status = StatusOK
    /\ last.access_token.user_id = Alice
    /\ last.access_token.is_admin
    /\ last.cache0 # {}
    /\ cache = last.cache0

(* C21: a 200 response of TokenHandler holds a non-empty refresh_token        *)
(* exactly when the grant was password or refresh_token; the                 *)
(* client_credentials grant returns the access token only, draws no random   *)
(* token and neither reads nor writes the cache.                             *)
Inv_C21 ==
    /\ (IsToken /\ last.status = StatusOK) =>
          /\ last.access_token # NoToken
          /\ (last.refresh_token # NoRefreshToken) <=>
                (last.req.grant_type \in {"password", "refresh_token"})
    /\ (IsToken /\ last.req.grant_type = "client_credentials") =>
          /\ last.refresh_token = NoRefreshToken
          /\ last.drawn = 0
          /\ cache = last.cache0
          /\ \A i \in 1..Len(last.effects) :
                last.effects[i] \in {"GetOAuthClientByClientID", "GetUserByID",
                                     "IssueClientAccessToken"}

\* a client obtains its own token while the cache holds a refresh-token record
Wit_C21 ==
    /\ IsToken
    /\ last.req.grant_type = "client_credentials"
    /\ last.status = StatusOK
    /\ last.access_token.client_id = C2
    /\ last.refresh_token = NoRefreshToken
    /\ last.cache0 # {}

\* every non-nil task of a Submit that has returned was started exactly once,
\* no task is started twice, and all of them have finished when Stop has
\* returned
PoolSafe ==
    \A c \in Calls :
        /\ pool.started[c] <= 1
        /\ pool.finished[c] <= pool.started[c]
        /\ (pool.call[c] = "returned" /\ ~ pool.nilTask[c]) =>
              /\ pool.started[c] = 1
              /\ pool.stop = "returned" => pool.finished[c] = 1

(* C22: for a pool made by NewPool(n), every non-nil task of a Submit that    *)
(* returned before Stop was called is executed exactly once and has finished *)
(* when Stop returns; and Stop, once called, returns, every task             *)
(* terminating.                                                              *)
Live_C22 ==
    /\ []PoolSafe
    /\ (pool.stop = "waiting") ~> (pool.stop = "returned")

-----------------------------------------------------------------------------
(* C23: GetMyOAuthClientHandler, UpdateMyOAuthClientHandler and              *)
(* DeleteMyOAuthClientHandler act on a client only when its owning user id   *)
(* equals the user id of the caller's claims. For a client of another user   *)
(* they answer 404 'client not found', return none of its fields and run no  *)
(* update or delete; without claims, or with user id 0 in them, they answer  *)
(* 401 before any store access.                                              *)
Inv_C23 ==
    IsMyOAuthClient =>
        /\ CallerID = 0
              => /\ last.status = StatusUnauthorized
                 /\ last.effects = << >>
                 /\ last.body = NoClient
                 /\ clients = last.clients0
        /\ \A c \in last.clients0 :
              ( /\ c.client_id = last.client_id
                /\ CallerID # 0
                /\ c.user_id # CallerID
                /\ BodyAccepted
                /\ last.fault # "clientQuery" )
              => /\ last.status = StatusNotFound
                 /\ last.message = "client not found"
                 /\ last.body = NoClient
                 /\ ~ Called("UpdateOAuthClient")
                 /\ ~ Called("DeleteOAuthClient")
                 /\ clients = last.clients0
        /\ ( \/ last.body # NoClient
             \/ Called("UpdateOAuthClient")
             \/ Called("DeleteOAuthClient")
             \/ clients # last.clients0 )
              => \E c \in last.clients0 :
                    /\ c.client_id = last.client_id
                    /\ CallerID # 0
                    /\ c.user_id = CallerID

\* alice asks to update bob's client c1 with a valid body and is told 404
Wit_C23 ==
    /\ last.handler = "UpdateMyOAuthClient"
    /\ CallerID = Alice
    /\ last.client_id = C1
    /\ \E c \in last.clients0 : c.client_id = C1 /\ c.user_id = Bob
    /\ BodyAccepted
    /\ last.status = StatusNotFound

-----------------------------------------------------------------------------
(* C24: UpdateMyUserPasswordHandler writes a new password hash only for the  *)
(* user id of the caller's claims, and only after the submitted old password *)
(* has authenticated against that user's stored hash. When the old password  *)
(* does not authenticate the answer is 401 and the stored hash is unchanged; *)
(* when hashing the new password fails nothing is written.                   *)
Inv_C24 ==
    IsMyPassword =>
        /\ Called("UpdateUserPassword")
              => /\ CallerID # 0
                 /\ \E u \in last.users0 :
                       /\ u.id = CallerID
                       /\ ComparePassword(u.password_hash, last.req.old_password)
        /\ \A u \in last.users0 :
              u \notin users
              => /\ u.id = CallerID
                 /\ ComparePassword(u.password_hash, last.req.old_password)
                 /\ users = (last.users0 \ {u}) \cup
                       {[u EXCEPT !.password_hash = BcryptHash(last.req.new_password)]}
        /\ \A u \in last.users0 :
              ( /\ u.id = CallerID
                /\ last.fault \notin {"bind", "userQuery"}
                /\ ValidUpdateMyPasswordRequest(last.req)
                /\ ~ ComparePassword(u.password_hash, last.req.old_password) )
              => /\ last.status = StatusUnauthorized
                 /\ users = last.users0
        /\ last.fault = "hash"
              => /\ ~ Called("UpdateUserPassword")
                 /\ users = last.users0

\* alice changes her password from pw1 to pw3
Wit_C24 ==
    /\ IsMyPassword
    /\ CallerID = Alice
    /\ last.status = StatusNoContent
    /\ \E u \in users : u.id = Alice /\ u.password_hash = BcryptHash("pw3")
    /\ \E u \in last.users0 : u.id = Alice /\ u.password_hash = BcryptHash("pw1")

-----------------------------------------------------------------------------
(* C25: a cache key 'refresh_token:<token>' is written only by the password  *)
(* grant at issuance, and no later operation of the auth core (password,     *)
(* client_credentials or refresh_token grant, login) overwrites, updates or  *)
(* deletes it: from its creation until its ttl runs out the stored record    *)
(* (user id, client id, admin flag) stays identical.                         *)
RecordsKept ==
    /\ \A e \in cache : e.exp > now' => e \in cache'
    /\ \A e \in cache' \ cache :
          /\ last'.handler = "token"
          /\ last'.req.grant_type = "password"
          /\ last'.status = StatusOK
          /\ e.key = RefreshKey(last'.refresh_token)
          /\ ~ \E o \in cache : o.key = e.key
-----------------------------------------------------------------------------
(* C26: whether VerifyAccessToken accepts a token depends only on the token, *)
(* the configured secret and the current time. No change to the user store,  *)
(* the client store or the cache (the user deleted, the admin flag or the    *)
(* password changed, the client deleted, the refresh token expired) changes  *)
(* the result for a token already issued, before its expiry.                 *)
Inv_C26 ==
    last.handler = "VerifyAccessToken"
        => ( ~ last.err <=> /\ jwtSecret # ""
                            /\ last.token.alg = "HS256"
                            /\ last.token.key = jwtSecret
                            /\ now < last.token.exp )

\* alice's client token is accepted after alice and her client were deleted
\* and the refresh-token record in the cache has expired
Wit_C26 ==
    /\ last.handler = "VerifyAccessToken"
    /\ ~ last.err
    /\ last.token.user_id = Alice
    /\ last.token.client_id = C2
    /\ ~ \E u \in users : u.id = Alice
    /\ ~ \E c \in clients : c.client_id = C2
    /\ written # {}
    /\ cache = {}

-----------------------------------------------------------------------------
\* what run() does before it starts the server, in order
StepsBeforeServer == <<"env", "newPgxPool", "newRedisClient", "runMigrations">>

\* the server is started only after the four steps, in that order
ServerStartedInOrder ==
    boot.server # "off"
        => /\ Len(boot.done) >= 4
           /\ SubSeq(boot.done, 1, 4) = StepsBeforeServer
           /\ boot.env.DATABASE_URL # << >>
           /\ boot.env.REDIS_ADDR # << >>
           /\ ~ Atoi(boot.env.REDIS_DB).err
           /\ boot.env.REDIS_PASSWORD # << >>
           /\ boot.db # "none"
           /\ boot.redis # "none"

\* a failed step ends run() with an error and without the server
FailureStopsRun ==
    (boot.pc = "returned" /\ boot.failed \in {"env", "newPgxPool", "newRedisClient",
                                               "runMigrations"})
        => boot.result = "error" /\ boot.server = "off"

\* no connection is open once run() has returned
ConnectionsClosed == boot.pc = "returned" => boot.db # "open" /\ boot.redis # "open"

(* C27: run() starts the HTTP server only after DATABASE_URL, REDIS_ADDR,    *)
(* REDIS_DB (an integer) and REDIS_PASSWORD were found set, the database     *)
(* pool and the Redis client were created and the migrations succeeded, in   *)
(* that order. If one of these steps fails run() returns an error without    *)
(* starting the server, and every connection that was opened (database,      *)
(* cache) is closed by the time run() returns, on success and on failure.    *)
Inv_C27 == ServerStartedInOrder /\ FailureStopsRun /\ ConnectionsClosed

-----------------------------------------------------------------------------
(* C28: a refresh token can be redeemed only by the client it was issued to. *)
(* A refresh_token grant succeeds only if the client id in the refresh-token *)
(* record equals the id of the client authenticated by the Basic header of   *)
(* the request; otherwise it is rejected and no access token is issued.      *)
Inv_C28 ==
    ( /\ IsToken
      /\ last.req.grant_type = "refresh_token"
      /\ (last.status = StatusOK \/ last.access_token # NoToken) )
    => \E e \in last.cache0, c \in clients :
          /\ e.key = RefreshKey(last.req.refresh_token)
          /\ Presented(c)
          /\ e.val.client_id = c.client_id

-----------------------------------------------------------------------------
\* what a finished request showed: its response and the records it wrote
SeenBy(f) ==
    Seen(f.resp.status, f.resp.message, f.resp.access_token,
         f.resp.refresh_token # NoRefreshToken,
         {[val |-> e.val, exp |-> e.exp] : e \in f.wrote})

\* a request that takes its last step shows what TokenHandler, run alone in
\* the state of that step, shows: the last steps put the requests in a
\* sequential order
AsIfAlone ==
    \A s \in Slots :
        (flight[s].pc # "done" /\ flight'[s].pc = "done")
            => /\ SeenBy(flight'[s]) = SeenAlone(flight'[s].req)
               /\ flight'[s].req.grant_type = "refresh_token"
                     /\ flight'[s].resp.status = StatusOK
                  => flight'[s].resp.refresh_token = flight'[s].req.refresh_token

Succeeded(s, grantType) ==
    /\ flight[s].pc = "done"
    /\ flight[s].req.grant_type = grantType
    /\ flight[s].resp.status = StatusOK

\* the user and the client a request names
UserNamed(s) == CHOOSE u \in users : u.name = flight[s].req.username
ClientOf(s) == CHOOSE c \in clients : flight[s].req.auth = ClientAuth[c]

\* every password grant that succeeded left a record of its own, for its own
\* user and client, under the token it returned
OwnRecords ==
    /\ \A s \in Slots :
          Succeeded(s, "password")
              => \E e \in cache :
                    /\ e.key = RefreshKey(flight[s].resp.refresh_token)
                    /\ flight[s].wrote = {e}
                    /\ e.val = [user_id |-> UserNamed(s).id,
                                client_id |-> ClientOf(s).client_id,
                                is_admin |-> UserNamed(s).is_admin]
    /\ \A s, t \in Slots :
          (s # t /\ Succeeded(s, "password") /\ Succeeded(t, "password"))
              => flight[s].resp.refresh_token # flight[t].resp.refresh_token

\* the access token of a request carries the user and the client of that
\* request and of no other
NoForeignIds ==
    \A s \in Slots :
        /\ Succeeded(s, "password")
              => /\ flight[s].resp.access_token.user_id = UserNamed(s).id
                 /\ flight[s].resp.access_token.client_id = << >>
        /\ Succeeded(s, "client_credentials")
              => /\ flight[s].resp.access_token.user_id = ClientOf(s).user_id
                 /\ flight[s].resp.access_token.client_id = ClientOf(s).client_id
        /\ Succeeded(s, "refresh_token")
              => \E e \in cache :
                    /\ e.key = RefreshKey(flight[s].req.refresh_token)
                    /\ flight[s].resp.access_token.user_id = e.val.user_id
                    /\ flight[s].resp.access_token.client_id = << >>

(* C29: token requests handled at the same time do not interfere. In every   *)
(* interleaving of TokenHandler requests (several password grants of one     *)
(* user and client, refresh grants of a token while another request issues a *)
(* new one) each request gets the response it would get in some sequential   *)
(* order of the requests, each password grant leaves its own distinct        *)
(* refresh-token record, and no record or response of a request contains the *)
(* user id or client id of another.                                          *)
Inv_C29 == [][AsIfAlone]_vars /\ [](OwnRecords /\ NoForeignIds)

\* two password grants of alice through c1, handled at the same time, both
\* answered 200 with different refresh tokens, the second drawn before the
\* first was stored
Wit_C29 ==
    /\ Succeeded(1, "password")
    /\ Succeeded(2, "password")
    /\ flight[1].req = flight[2].req
    /\ flight[1].req.username = "alice"
    /\ flight[1].resp.refresh_token = RandomToken(3)
    /\ flight[2].resp.refresh_token = RandomToken(2)
    /\ flight[1].wrote \cup flight[2].wrote \subseteq cache

-----------------------------------------------------------------------------
\* the last request was answered 200 with an access token
Returned == last.status = StatusOK /\ last.access_token # NoToken

\* the last request presented the name and the current password of user u
ByPassword(u) ==
    /\ IsLogin \/ (IsToken /\ last.req.grant_type = "password")
    /\ \E usr \in users : usr.id = u /\ CredentialsOf(usr)

\* the last request redeemed a refresh token whose record names user u
ByRefresh(u) ==
    /\ IsToken
    /\ last.req.grant_type = "refresh_token"
    /\ \E e \in last.cache0 :
          e.key = RefreshKey(last.req.refresh_token) /\ e.val.user_id = u

\* the last request was the client_credentials grant of an authenticated
\* client that user u owns
ByClient(u) ==
    /\ IsToken
    /\ last.req.grant_type = "client_credentials"
    /\ Authenticated
    /\ \E c \in clients : Presented(c) /\ c.user_id = u

Provenance ==
    Returned => LET u == last.access_token.user_id
                IN  ByPassword(u) \/ ByRefresh(u) \/ ByClient(u)

\* every record that enters the cache is written by a password grant that
\* presented the name and password of the user the record names
RecordsByPassword ==
    \A e \in cache' \ cache :
        /\ last'.handler = "token"
        /\ last'.req.grant_type = "password"
        /\ last'.status = StatusOK
        /\ \E usr \in users' :
              /\ usr.id = e.val.user_id
              /\ usr.name = last'.req.username
              /\ usr.password_hash = BcryptHash(last'.req.password)

(* C30: after any sequence of token-endpoint and login requests, every       *)
(* access token returned with user id u was issued by a request that         *)
(* presented u's correct password, or by a refresh_token grant whose cache   *)
(* record was created by such a password grant for u, or by a                *)
(* client_credentials grant of an authenticated client owned by u; no other  *)
(* request path returns a token carrying u. The cache starts empty, so every *)
(* record a refresh grant reads was written by a step of the second formula. *)
Inv_C30 == []Provenance /\ [][RecordsByPassword]_vars

\* the owner of the redeeming client is bob, the token carries alice: a
\* refresh grant through c3 of the record alice's password grant left, after
\* alice's row was deleted
Wit_C30 ==
    /\ Returned
    /\ ByRefresh(Alice)
    /\ last.access_token.user_id = Alice
    /\ last.req.auth = BasicAuth(C3, S3)
    /\ ~ \E usr \in users : usr.id = Alice
    /\ written # {}

====
